---- MODULE Spec2Model ----
(***************************************************************************)
(* Model of the provider-abstraction layer of zenith-image-generator:      *)
(* the chat handler (apps/api/src/openai/chat.ts), the credential rotation *)
(* engine it calls, the HuggingFace image capability with its base-URL     *)
(* failover (channels/huggingface/image.ts), the A4F image capability and  *)
(* the Gradio queue client (utils/gradio.ts).                              *)
(*                                                                         *)
(* Text is abstracted to the set of substrings the code tests for          *)
(* ("markers"): a message is the set of markers it contains, and           *)
(* concatenation is union.                                                 *)
(***************************************************************************)
EXTENDS Integers, Sequences, FiniteSets, TLC

\* ------------------------------------------------------------------ bounds
MaxTokens == 2

\* The lines of an event-stream body.
MaxLines == 4

\* The markers of a message, and the segments of a model string.
MaxMarkers == 2
MaxSegments == 3

\* The other requests of the process.
MaxRequests == 2

\* The messages of a chat request.
MaxMessages == 3

\* ------------------------------------------------------- program constants
MAX_GRADIO_RETRIES == 3
BASE_DELAY == 600

\* ----------------------------------------------------------- error values
ApiErrorCode ==
  {"AUTH_REQUIRED", "AUTH_INVALID", "RATE_LIMITED", "QUOTA_EXCEEDED", "TIMEOUT",
   "PROVIDER_ERROR", "INVALID_PARAMS", "INVALID_PROMPT", "GENERATION_FAILED"}

\* The substrings some branch of the code looks for in a message.
Markers ==
  {"404", "rate limit", "too many requests", "quota", "exceeded", "unauthorized",
   "forbidden", "timeout", "timed out", "unavailable", "loading"}

NoMarkers == {}

\* An ApiError: its code and, of details.upstream, the one marker that is
\* ever looked for in it ("404", by isNotFoundProviderError).
Upstream(message) == message \cap {"404"}

ApiError(code, upstream) ==
  [class |-> "ApiError", code |-> code, upstream |-> Upstream(upstream)]

\* An error that is not an ApiError (SyntaxError, TypeError).
RawError(class) == [class |-> class, code |-> "none", upstream |-> NoMarkers]

NoError == [class |-> "none", code |-> "none", upstream |-> NoMarkers]

rateLimited == ApiError("RATE_LIMITED", NoMarkers)
quotaExceeded == ApiError("QUOTA_EXCEEDED", NoMarkers)
authInvalid(message) == ApiError("AUTH_INVALID", message)
authRequired == ApiError("AUTH_REQUIRED", NoMarkers)
timeout == ApiError("TIMEOUT", NoMarkers)
providerError(message) == ApiError("PROVIDER_ERROR", message)
invalidParams == ApiError("INVALID_PARAMS", NoMarkers)
invalidPrompt == ApiError("INVALID_PROMPT", NoMarkers)
generationFailed == ApiError("GENERATION_FAILED", NoMarkers)

\* --------------------------------------------------- parseHuggingFaceError
\* status = 0 stands for the omitted status argument.
ServiceUnavailableText == {"unavailable", "loading"}

\* The classifier looking at the status before the text.
parseHuggingFaceErrorStatusFirst(message, status) ==
  IF status = 429 THEN rateLimited
  ELSE IF status = 401 \/ status = 403 THEN authInvalid(message)
  ELSE IF status = 503 THEN providerError(ServiceUnavailableText)
  ELSE IF "rate limit" \in message \/ "too many requests" \in message THEN rateLimited
  ELSE IF "quota" \in message \/ "exceeded" \in message THEN quotaExceeded
  ELSE IF "unauthorized" \in message \/ "forbidden" \in message THEN authInvalid(message)
  ELSE IF "timeout" \in message \/ "timed out" \in message THEN timeout
  ELSE IF "unavailable" \in message \/ "loading" \in message
    THEN providerError(ServiceUnavailableText)
  ELSE providerError(message)

parseHuggingFaceError(message, status) ==
  IF status = 429 \/ "rate limit" \in message \/ "too many requests" \in message
    THEN rateLimited
  ELSE IF "quota" \in message \/ "exceeded" \in message
    THEN quotaExceeded
  ELSE IF status = 401 \/ status = 403 \/ "unauthorized" \in message
          \/ "forbidden" \in message
    THEN authInvalid(message)
  ELSE IF "timeout" \in message \/ "timed out" \in message
    THEN timeout
  ELSE IF status = 503 \/ "unavailable" \in message \/ "loading" \in message
    THEN providerError(ServiceUnavailableText)
  ELSE providerError(message)

\* ------------------------------------------------------------ JSON values
\* A JSON text as the code sees it: t is its shape after JSON.parse
\* ("malformed" when JSON.parse throws), err and msg are an object's `error`
\* and `message` fields, arr is the array (bare, or under `data`), and text
\* is the set of markers of the raw text.
Absent == [k |-> "absent", m |-> NoMarkers]
Str(m) == [k |-> "str", m |-> m]
NonStr == [k |-> "nonstr", m |-> NoMarkers]
\* A field that is present and falsy ("", 0, false, null).
Falsy == [k |-> "falsy", m |-> NoMarkers]

NoArray == [first |-> "none", second |-> "none"]

Json(t, err, msg, arr, text) == [t |-> t, err |-> err, msg |-> msg, arr |-> arr, text |-> text]

\* What result[0] and result[1] of a `complete` payload can be.

ArrUrl == [first |-> "url", second |-> "num"]
ArrObjUrl == [first |-> "objurl", second |-> "seedtext"]
ArrNoImage == [first |-> "objnourl", second |-> "none"]
ArrHtml == [first |-> "html_img", second |-> "none"]
ArrHtmlErr == [first |-> "html_noimg", second |-> "errtext404"]

ResultArrays == {ArrUrl, ArrObjUrl, ArrNoImage, ArrHtml, ArrHtmlErr}

\* ------------------------------------------------------ event-stream text
\* A body is a sequence of lines: an `event:` line carries the event name,
\* a `data:` line a JSON text, any other line nothing the code reads.
EventLine(name) == [k |-> "event", name |-> name, json |-> Json("null", Absent, Absent, NoArray, NoMarkers)]
DataLine(json) == [k |-> "data", name |-> "", json |-> json]
OtherLine == [k |-> "other", name |-> "", json |-> Json("null", Absent, Absent, NoArray, NoMarkers)]
\* A line of 200 characters or more that is neither (a comment, padding);
\* every other line is short.
LongLine == [k |-> "other", name |-> "long", json |-> Json("null", Absent, Absent, NoArray, NoMarkers)]

\* sseStream without the cut at 200 characters.
RECURSIVE StreamTextWhole(_)
StreamTextWhole(lines) ==
  IF lines = <<>> THEN NoMarkers
  ELSE (IF Head(lines).k = "data" THEN Head(lines).json.text ELSE NoMarkers)
       \cup StreamTextWhole(Tail(lines))

\* The markers of sseStream.substring(0, 200): what follows a long line is
\* cut off.
RECURSIVE StreamText(_)
StreamText(lines) ==
  IF lines = <<>> \/ Head(lines) = LongLine THEN NoMarkers
  ELSE (IF Head(lines).k = "data" THEN Head(lines).json.text ELSE NoMarkers)
       \cup StreamText(Tail(lines))

Returned(val) == [ok |-> TRUE, val |-> val, err |-> NoError]
Thrown(err) == [ok |-> FALSE, val |-> Json("null", Absent, Absent, NoArray, NoMarkers), err |-> err]

\* The message of an `error` event: error field, else message field, else
\* the stringified JSON.
ErrorMsg(json) ==
  IF json.err.k \notin {"absent", "falsy"} THEN json.err
  ELSE IF json.msg.k \notin {"absent", "falsy"} THEN json.msg
  ELSE Str(json.text)

\* The body of the loop for a `data:` line under event `error`.
ErrorEvent(json) ==
  IF json.t = "malformed" THEN Thrown(parseHuggingFaceError(json.text, 0))
  ELSE IF ErrorMsg(json).k = "nonstr" THEN Thrown(RawError("TypeError"))
  ELSE Thrown(parseHuggingFaceError(ErrorMsg(json).m, 0))

CompleteEvent(json) ==
  IF json.t = "malformed" THEN Thrown(RawError("SyntaxError")) ELSE Returned(json)

\* The scan reading the whole stream, the last terminal event deciding.
RECURSIVE ScanLinesDrained(_, _, _)
ScanLinesDrained(lines, currentEvent, all) ==
  IF lines = <<>>
    THEN Thrown(providerError(StreamText(all)))
  ELSE LET line == Head(lines)
           later == ScanLinesDrained(Tail(lines), currentEvent, all)
           found == later # Thrown(providerError(StreamText(all)))
       IN
    IF line.k = "event" THEN ScanLinesDrained(Tail(lines), line.name, all)
    ELSE IF found THEN later
    ELSE IF line.k = "data" /\ currentEvent = "complete" THEN CompleteEvent(line.json)
    ELSE IF line.k = "data" /\ currentEvent = "error" THEN ErrorEvent(line.json)
    ELSE later

RECURSIVE ScanLines(_, _, _)
ScanLines(lines, currentEvent, all) ==
  IF lines = <<>>
    THEN Thrown(providerError(StreamText(all)))
  ELSE LET line == Head(lines) IN
    IF line.k = "event" THEN ScanLines(Tail(lines), line.name, all)
    ELSE IF line.k = "data" /\ currentEvent = "complete" THEN CompleteEvent(line.json)
    ELSE IF line.k = "data" /\ currentEvent = "error" THEN ErrorEvent(line.json)
    ELSE ScanLines(Tail(lines), currentEvent, all)

extractCompleteEventData(sseStream) == ScanLines(sseStream, "", sseStream)

\* The normalisation accepting a bare array only.
normalizeCompleteBareArray(complete) ==
  IF complete.t = "array"
    THEN [ok |-> TRUE, arr |-> complete.arr, err |-> NoError]
  ELSE [ok |-> FALSE, arr |-> NoArray, err |-> providerError(complete.text)]

\* The normalisation at the end of callGradioApi.
normalizeComplete(complete) ==
  IF complete.t = "array" \/ complete.t = "objdata"
    THEN [ok |-> TRUE, arr |-> complete.arr, err |-> NoError]
  ELSE [ok |-> FALSE, arr |-> NoArray, err |-> providerError(complete.text)]

\* --------------------------------------------------------------- requests
\* What the upstream can answer to one fetch.  kind "reject" is a transport
\* failure (fetch rejects); otherwise status is the HTTP status, errText the
\* markers of an error body, json the parsed body of a 2xx submit response
\* and text the body of a 2xx poll response.
ErrTexts == {NoMarkers} \cup {{m} : m \in Markers}
ErrorStatuses == {404, 503, 500, 401, 429}
SubmitJsons == {"id", "id404", "noid", "null", "malformed"}

\* The bodies of a 2xx poll response: empty, without a terminal event, and
\* one per outcome of a `complete` and of an `error` event.
SomeStreams ==
  {<<>>, <<EventLine("heartbeat")>>}
  \cup {<<EventLine("complete"), DataLine(j)>> :
          j \in {Json("array", Absent, Absent, ArrUrl, NoMarkers),
                 Json("array", Absent, Absent, ArrObjUrl, NoMarkers),
                 Json("array", Absent, Absent, ArrNoImage, NoMarkers),
                 Json("malformed", Absent, Absent, NoArray, NoMarkers)}}
  \cup {<<EventLine("error"), DataLine(j)>> :
          j \in {Json("object", Absent, Str({"404"}), NoArray, {"404"}),
                 Json("object", NonStr, Str(NoMarkers), NoArray, NoMarkers)}}

Resp(kind, status, errText, json, text) ==
  [kind |-> kind, status |-> status, errText |-> errText, json |-> json, text |-> text]

RejectResponse == Resp("reject", 0, NoMarkers, "null", <<>>)

ErrorResponses == {Resp("http", s, e, "null", <<>>) : s \in ErrorStatuses, e \in ErrTexts}

SubmitResponses ==
  {RejectResponse} \cup ErrorResponses
  \cup {Resp("http", 200, NoMarkers, j, <<>>) : j \in SubmitJsons}

PollResponses ==
  {RejectResponse} \cup ErrorResponses
  \cup {Resp("http", 200, NoMarkers, "null", t) : t \in SomeStreams}

\* The markers of `${status}`: only "404" is ever looked for.
StatusText(status) == IF status = 404 THEN {"404"} ELSE NoMarkers

\* The markers of the result URL: the event id is the only part of it that
\* varies, and an id can contain the digits 404.
ResultUrlText(id404) == IF id404 THEN {"404"} ELSE NoMarkers

\* The submit loop retrying on its last attempt too.
shouldRetrySubmitLastAttempt(attempt, status) ==
  attempt < MAX_GRADIO_RETRIES /\ (status = 404 \/ status = 503)

\* The submit loop retrying on every error status.
shouldRetrySubmitAnyStatus(attempt, status) == attempt < MAX_GRADIO_RETRIES - 1

\* shouldRetry of the submit loop and of the poll loop.
shouldRetrySubmit(attempt, status) ==
  attempt < MAX_GRADIO_RETRIES - 1 /\ (status = 404 \/ status = 503)

\* The poll loop retrying on 503 only.
shouldRetryPollOnly503(attempt, status) ==
  attempt < MAX_GRADIO_RETRIES - 1 /\ status = 503

shouldRetryPoll(attempt, status) ==
  attempt < MAX_GRADIO_RETRIES - 1 /\ (status = 404 \/ status = 503)

\* The outcome of callGradioApi as its caller sees it.
GradioOk(arr) == [ok |-> TRUE, arr |-> arr, err |-> NoError]
GradioErr(err) == [ok |-> FALSE, arr |-> NoArray, err |-> err]

\* One callGradioApi activation before its first fetch: the loop index, the
\* statuses answered and the delays slept in each loop, whether the job id
\* contains "404", and whether the 2xx poll body was "empty" or a "text".
NewQueueJob ==
  [attempt |-> 0, submits |-> <<>>, polls |-> <<>>,
   submitSleeps |-> <<>>, pollSleeps |-> <<>>, id404 |-> FALSE, body |-> "none"]

\* The code after the poll loop: empty body, parse, normalise.
AfterPoll(text) ==
  IF text = <<>> THEN GradioErr(providerError(NoMarkers))
  ELSE LET complete == extractCompleteEventData(text) IN
    IF ~complete.ok THEN GradioErr(complete.err)
    ELSE normalizeComplete(complete.val)

\* ------------------------------------------------ HuggingFace image models
OMNI_IMAGE_MODELS == {"omni-image", "omni-edit", "omni-upscale", "omni-dewatermark"}

MODEL_CONFIGS ==
  {"z-image-turbo", "qwen-image-fast", "ovis-image", "flux-1-schnell", "z-image"}
  \cup OMNI_IMAGE_MODELS

\* The base URLs generate tries for a model, in order: the model's space
\* (the one space of all omni-* models, the z-image-turbo space for a model
\* without one) and then the static fallbacks of fallbackMap.
fallbackMap(modelId) ==
  IF modelId = "z-image-turbo" THEN <<"https://mrfakename-z-image-turbo.hf.space">>
  ELSE IF modelId = "z-image" THEN <<"https://mrfakename-z-image.hf.space">>
  ELSE <<>>

getCandidateBaseUrls(modelId) ==
  LET spaceKey == IF modelId \in OMNI_IMAGE_MODELS THEN "omni-image" ELSE modelId
      primary == IF spaceKey \in MODEL_CONFIGS THEN spaceKey ELSE "z-image-turbo"
  IN <<primary>> \o fallbackMap(modelId)

\* The failover advancing on every provider error.
isNotFoundProviderErrorAnyUpstream(err) == err.code = "PROVIDER_ERROR"

isNotFoundProviderError(err) ==
  err.code = "PROVIDER_ERROR" /\ "404" \in err.upstream

\* The validation that knows omni-edit only.
needsSourceImageEditOnly(modelId) == modelId = "omni-edit"

needsSourceImage(modelId) ==
  modelId = "omni-edit" \/ modelId = "omni-upscale" \/ modelId = "omni-dewatermark"

\* The markers of the status text an omni space returns as result[1].
SecondText(second) ==
  IF second = "errtext404" THEN {"404"}
  ELSE IF second = "ratelimittext" THEN {"rate limit"}
  ELSE NoMarkers

\* The body of the try block after callGradioApi returned `arr`: the error
\* it throws, or NoError when an image URL was found.
ImageFromResult(modelId, arr) ==
  IF modelId \in OMNI_IMAGE_MODELS
    THEN IF arr.second \in {"errtext404", "ratelimittext"}
           THEN providerError(SecondText(arr.second))
         ELSE IF arr.first \in {"url", "html_img"} THEN NoError
         ELSE generationFailed
  ELSE IF arr.first \in {"url", "html_img", "html_noimg", "objurl"} THEN NoError
  ELSE generationFailed

\* The code after the loop raising its own error whatever the loop caught.
afterLoopGenerationFailed(lastErr) == generationFailed

\* The code after the failover loop when no image URL was found.
afterLoop(lastErr) == IF lastErr # NoError THEN lastErr ELSE generationFailed

\* What a capability operation hands back to the rotation engine.
OpOk == [ok |-> TRUE, arr |-> NoArray, err |-> NoError]
OpErr(err) == [ok |-> FALSE, arr |-> NoArray, err |-> err]
NoRet == [ok |-> FALSE, arr |-> NoArray, err |-> NoError]

\* A seed is a natural number; NoSeed stands for the absent one.
NoSeed == -1
MAX_INT32 == 2147483647

\* The values Math.floor(Math.random() * MAX_INT32) is drawn from here, and
\* the seed a space reports in result[1].
RandomSeeds == {1, MAX_INT32 - 1}
ProviderSeed == 42

\* The seed fixed with || in place of ??.
fixSeedTruthy(requestSeed, random) ==
  IF requestSeed # NoSeed /\ requestSeed # 0 THEN requestSeed ELSE random

\* request.seed ?? Math.floor(Math.random() * MAX_INT32)
fixSeed(requestSeed, random) == IF requestSeed # NoSeed THEN requestSeed ELSE random

\* The seed in config.buildData(request, seed): the builders of the omni-*
\* models take no seed, a model without config gets the builder of
\* z-image-turbo.
buildDataSeed(modelId, seed) == IF modelId \in OMNI_IMAGE_MODELS THEN NoSeed ELSE seed

\* result[1] is "num" for a number and "seedtext" for a text that matches
\* "Seed used for generation: <digits>".
parseSeedFromResponse(modelId, result, fallbackSeed) ==
  IF modelId = "qwen-image-fast" /\ result.second = "seedtext" THEN ProviderSeed
  ELSE IF result.second = "num" THEN ProviderSeed
  ELSE fallbackSeed

\* One generate activation before its loop.
NewGenerate(modelId) ==
  [modelId |-> modelId, candidates |-> getCandidateBaseUrls(modelId),
   contacted |-> <<>>, errs |-> <<>>, lastErr |-> NoError,
   seed |-> NoSeed, sent |-> <<>>, reported |-> "none", resultSeed |-> NoSeed]

IdleGenerate == NewGenerate("z-image-turbo")

\* ----------------------------------------------------------- model strings
\* A model string is the sequence of its "/"-separated segments: "" is
\* <<"">>, "gitee/qwen-image" is <<"gitee", "qwen-image">>.  The segment " "
\* stands for white space, " gitee" for "gitee" after white space and
\* "qwen-image " for "qwen-image" before white space.
TrimStart(x) == CASE x = " " -> "" [] x = " gitee" -> "gitee" [] OTHER -> x
TrimEnd(x) == CASE x = " " -> "" [] x = "qwen-image " -> "qwen-image" [] OTHER -> x

\* trim() of a text without "/"
TrimSeg(x) == TrimEnd(TrimStart(x))

\* trim() of a model string: white space goes at both ends of the whole
\* string, never next to a "/" inside it.
Trim(str) ==
  [i \in 1..Len(str) |->
     LET x == IF i = 1 THEN TrimStart(str[i]) ELSE str[i]
     IN IF i = Len(str) THEN TrimEnd(x) ELSE x]

EmptyStr == <<"">>

\* str.startsWith(prefix + "/")
startsWith(str, prefix) == Len(str) >= 2 /\ str[1] = prefix

DEFAULT_HF_MODEL == <<"z-image-turbo">>
HF_MODELS == {<<"z-image-turbo">>, <<"qwen-image-fast">>, <<"ovis-image">>, <<"flux-1-schnell">>}

GITEE_MODEL_ALIASES ==
  [a \in {<<"z-image-turbo">>, <<"qwen-image">>, <<"flux-1-krea-dev">>, <<"flux-1-dev">>} |->
     CASE a = <<"z-image-turbo">> -> <<"z-image-turbo">>
       [] a = <<"qwen-image">> -> <<"Qwen-Image">>
       [] a = <<"flux-1-krea-dev">> -> <<"FLUX_1-Krea-dev">>
       [] a = <<"flux-1-dev">> -> <<"FLUX.1-dev">>]

MODELSCOPE_MODEL_ALIASES ==
  [a \in {<<"z-image-turbo">>, <<"flux-2">>, <<"flux-1-krea-dev">>, <<"flux-1">>} |->
     CASE a = <<"z-image-turbo">> -> <<"Tongyi-MAI", "Z-Image-Turbo">>
       [] a = <<"flux-2">> -> <<"black-forest-labs", "FLUX.2-dev">>
       [] a = <<"flux-1-krea-dev">> -> <<"black-forest-labs", "FLUX.1-Krea-dev">>
       [] a = <<"flux-1">> -> <<"MusePublic", "489_ckpt_FLUX_1">>]

\* The keys every object literal inherits from Object.prototype, and what a
\* lookup of one gives: a member of the prototype, which is not a string.
InheritedKeys == {<<"constructor">>}
Inherited(raw) == <<"Object.prototype">> \o raw

\* table[raw]: undefined (EmptyStr here) when the table has no such key, own
\* or inherited
Lookup(table, raw) ==
  IF raw \in DOMAIN table THEN table[raw]
  ELSE IF raw \in InheritedKeys THEN Inherited(raw)
  ELSE EmptyStr

\* table[raw] || raw
Alias(table, raw) ==
  IF Lookup(table, raw) # EmptyStr THEN Lookup(table, raw) ELSE raw

Resolved(provider, model) == [provider |-> provider, model |-> model]

\* resolveModel keeping an unknown model id.
resolveModelKeep(modelParam) ==
  LET model == Trim(IF modelParam = EmptyStr THEN DEFAULT_HF_MODEL ELSE modelParam) IN
  IF startsWith(model, "gitee")
    THEN Resolved("gitee", Alias(GITEE_MODEL_ALIASES, Tail(model)))
  ELSE IF startsWith(model, "ms")
    THEN Resolved("modelscope", Alias(MODELSCOPE_MODEL_ALIASES, Tail(model)))
  ELSE IF startsWith(model, "a4f")
    THEN Resolved("a4f", Tail(model))
  ELSE Resolved("huggingface", model)

\* modelParam = EmptyStr also stands for the omitted argument.
resolveModel(modelParam) ==
  LET model == Trim(IF modelParam = EmptyStr THEN DEFAULT_HF_MODEL ELSE modelParam) IN
  IF startsWith(model, "gitee")
    THEN Resolved("gitee", Alias(GITEE_MODEL_ALIASES, Tail(model)))
  ELSE IF startsWith(model, "ms")
    THEN Resolved("modelscope", Alias(MODELSCOPE_MODEL_ALIASES, Tail(model)))
  ELSE IF startsWith(model, "a4f")
    THEN Resolved("a4f", Tail(model))
  ELSE Resolved("huggingface", IF model \in HF_MODELS THEN model ELSE DEFAULT_HF_MODEL)

isKnownImageModel(modelParam) ==
  LET model == Trim(modelParam) IN
  IF model = EmptyStr THEN FALSE
  ELSE IF startsWith(model, "gitee") THEN Lookup(GITEE_MODEL_ALIASES, Tail(model)) # EmptyStr
  ELSE IF startsWith(model, "ms") THEN Lookup(MODELSCOPE_MODEL_ALIASES, Tail(model)) # EmptyStr
  ELSE IF startsWith(model, "a4f") THEN TRUE
  ELSE model \in HF_MODELS

\* ------------------------------------------------------- channel registry
\* A channel: its image capability ("hf": the HuggingFace capability,
\* "a4f": the A4F capability, "generic": any other one, "none"), whether it
\* has a text-completion capability, config.auth, config.tokens and the id
\* of its first image model.
Channel(image, firstImage, llm, authType, optional, tokens) ==
  [image |-> image, firstImage |-> firstImage, llm |-> llm, authType |-> authType,
   optional |-> optional, tokens |-> tokens]

\* The ids of a4fConfig.imageModels and a4fConfig.llmModels.
A4F_IMAGE_MODELS == {<<"gpt-image-1">>, <<"dall-e-3">>}
A4F_LLM_MODELS == {<<"gemini-2.5-flash-lite">>}

a4fChannel == Channel("a4f", "gpt-image-1", TRUE, "bearer", FALSE, <<>>)

\* The registry after initialisation, for a configured pool `pool`.
Registry(pool) ==
  [id \in {"huggingface", "gitee", "modelscope", "deepseek", "a4f", "myhost"} |->
     CASE id = "huggingface" -> Channel("hf", "z-image-turbo", TRUE, "bearer", TRUE, pool)
       [] id = "gitee" -> Channel("generic", "other", TRUE, "bearer", FALSE, pool)
       [] id = "modelscope" -> Channel("generic", "other", FALSE, "bearer", FALSE, pool)
       [] id = "deepseek" -> Channel("none", "", TRUE, "bearer", FALSE, pool)
       [] id = "a4f" -> a4fChannel
       [] id = "myhost" -> Channel("none", "", TRUE, "none", FALSE, <<>>)]

\* The channels built into the process; the others are constructed from the
\* environment by ensureCustomChannelsInitialized.
BuiltInChannels == {"huggingface", "gitee", "modelscope", "deepseek", "a4f"}

\* The registry of a process before any request.
BuiltInRegistry(pool) == [id \in BuiltInChannels |-> Registry(pool)[id]]

\* The registry with the channels of the environment constructed into it.
WithCustomChannels(reg) ==
  [id \in DOMAIN reg \cup DOMAIN Registry(<<>>) |->
     IF id \in DOMAIN reg THEN reg[id] ELSE Registry(<<>>)[id]]

getChannel(reg, id) == id \in DOMAIN reg
\* The lookup that answers for a channel without image capability.
getImageChannelAny(reg, id) == id \in DOMAIN reg

getImageChannel(reg, id) == id \in DOMAIN reg /\ reg[id].image # "none"
getLLMChannel(reg, id) == id \in DOMAIN reg /\ reg[id].llm

\* ------------------------------------------------------------ credentials
\* An Authorization header: scheme, the provider prefix of the bearer text
\* ("" when it has none) and the comma-separated segments of the rest
\* (<<>> is the empty text, "" a blank segment).
Auth(scheme, prefix, segs) == [scheme |-> scheme, prefix |-> prefix, segs |-> segs]

NoAuth == Auth("none", "", <<>>)

PrefixProvider(prefix) ==
  CASE prefix = "gitee" -> "gitee"
    [] prefix = "ms" -> "modelscope"
    [] prefix = "hf" -> "huggingface"
    [] prefix = "deepseek" -> "deepseek"
    [] prefix = "a4f" -> "a4f"
    [] OTHER -> ""

\* The parse that keeps the token and drops the provider hint.
parseChatBearerTokenNoHint(authHeader) ==
  IF authHeader.scheme # "bearer" \/ authHeader.segs = <<>>
    THEN [providerHint |-> "", token |-> <<>>]
  ELSE [providerHint |-> "", token |-> authHeader.segs]

\* providerHint "" and token <<>> stand for the absent fields.
parseChatBearerToken(authHeader) ==
  IF authHeader.scheme # "bearer" \/ authHeader.segs = <<>>
    THEN [providerHint |-> "", token |-> <<>>]
  ELSE [providerHint |-> PrefixProvider(authHeader.prefix), token |-> authHeader.segs]

\* The handler's auth: the parsed header, kept with the header it was parsed
\* from.
Credentials(authHeader) ==
  [header |-> authHeader,
   providerHint |-> parseChatBearerToken(authHeader).providerHint,
   token |-> parseChatBearerToken(authHeader).token]

\* split on ",", trim, drop the empty segments
RECURSIVE parseTokens(_)
parseTokens(token) ==
  IF token = <<>> THEN <<>>
  ELSE IF TrimSeg(Head(token)) = "" THEN parseTokens(Tail(token))
  ELSE <<Head(token)>> \o parseTokens(Tail(token))

\* -------------------------------------------------------- chat resolution
NoTarget == [found |-> FALSE, channelId |-> "", model |-> EmptyStr]
Target(channelId, model) == [found |-> TRUE, channelId |-> channelId, model |-> model]

\* The split that takes a blank channel id.
CustomSplitBlankId(rest) == Len(rest) >= 2 /\ rest[1] # ""

\* rest.indexOf("/") > 0, and the channel id it cuts off is not blank
CustomSplit(rest) == Len(rest) >= 2 /\ TrimSeg(rest[1]) # ""

tryResolveImageModel(reg, model) ==
  LET trimmed == Trim(model)
      explicit == startsWith(trimmed, "image")
      inner == IF explicit THEN Tail(trimmed) ELSE trimmed
      resolved == resolveModel(inner)
  IN
  IF startsWith(inner, "custom")
    THEN LET rest == Tail(inner) IN
      IF CustomSplit(rest) /\ (getImageChannel(reg, TrimSeg(rest[1])) \/ explicit)
        THEN Target(TrimSeg(rest[1]), Trim(Tail(rest)))
      ELSE NoTarget
  ELSE IF explicit THEN Target(resolved.provider, resolved.model)
  ELSE IF ~getImageChannel(reg, resolved.provider) THEN NoTarget
  ELSE IF getChannel(reg, resolved.provider) /\ reg[resolved.provider].llm
    THEN IF isKnownImageModel(inner) THEN Target(resolved.provider, resolved.model)
         ELSE NoTarget
  ELSE Target(resolved.provider, resolved.model)

ChatModel(channelId, model, forceAnonymous) ==
  [channelId |-> channelId, model |-> model, forceAnonymous |-> forceAnonymous]

resolveChatModel(model) ==
  LET trimmed == Trim(model) IN
  IF trimmed = EmptyStr THEN ChatModel("huggingface", <<"openai-fast">>, TRUE)
  ELSE IF startsWith(trimmed, "custom") /\ CustomSplit(Tail(trimmed))
    THEN ChatModel(TrimSeg(Tail(trimmed)[1]), Trim(Tail(Tail(trimmed))), FALSE)
  ELSE IF startsWith(trimmed, "gitee") THEN ChatModel("gitee", Tail(trimmed), FALSE)
  ELSE IF startsWith(trimmed, "ms") THEN ChatModel("modelscope", Tail(trimmed), FALSE)
  ELSE IF startsWith(trimmed, "hf") THEN ChatModel("huggingface", Tail(trimmed), FALSE)
  ELSE IF startsWith(trimmed, "deepseek") THEN ChatModel("deepseek", Tail(trimmed), FALSE)
  ELSE IF startsWith(trimmed, "pollinations")
    THEN ChatModel("huggingface", Tail(trimmed), TRUE)
  ELSE IF startsWith(trimmed, "a4f") THEN ChatModel("a4f", Tail(trimmed), FALSE)
  ELSE ChatModel("huggingface", trimmed, TRUE)

\* The model id generate compares with its table: a one-segment id is that
\* segment, "" stands for the missing model and any other id is "other".
ModelName(model) ==
  IF model = EmptyStr THEN "" ELSE IF Len(model) = 1 THEN model[1] ELSE "other"

\* ----------------------------------------------------------------- inputs
NoToken == "anonymous"
TokenNames == <<"t1", "t2", "t3", "t4">>
ConfigNames == <<"c1", "c2", "c3", "c4">>

\* The comma-separated token lists a caller sends, one of them with a blank
\* segment.
TokenLists == {SubSeq(TokenNames, 1, n) : n \in 0..MaxTokens} \cup {<<"", "t1">>}

AuthHeaders ==
  {NoAuth, Auth("basic", "", <<"t1">>)}
  \cup {Auth("bearer", p, l) : p \in {"", "a4f", "hf"}, l \in TokenLists}

ConfigPools == {<<>>, SubSeq(ConfigNames, 1, MaxTokens)}

ModelStrings ==
  {<<"z-image-turbo">>, <<"z-image">>, <<"image", "custom", "huggingface", "omni-edit">>,
   <<"custom", "huggingface", "z-image">>, <<"image", "custom", "nowhere", "m">>,
   <<"image", "deepseek", "x">>, <<"a4f", "gpt-image-1">>, <<"image", "a4f", "">>,
   <<"gitee", "qwen-image">>, <<"gitee", "some-llm">>, <<"ms", "flux-2">>,
   <<"deepseek", "deepseek-chat">>, <<"pollinations", "openai">>, <<"openai-fast">>,
   <<" ">>, <<"custom", "myhost", "some-model">>, <<"custom", "nowhere", "m">>,
   <<"image", "custom", "deepseek", "x">>}

\* The request body: unparsable, without model, without messages, without
\* user text, with a user text that is only flags, or with a prompt.
Bodies == {"badjson", "nomodel", "nomessages", "nouser", "flagsonly", "ok"}

\* A capability operation and its arguments.
Call(cap, model, hasSource, token) ==
  [cap |-> cap, model |-> model, hasSource |-> hasSource, token |-> token, seed |-> NoSeed]

\* The call with request.seed given.
WithSeed(c, seed) == [c EXCEPT !.seed = seed]

ChatRequest(body, model, authHeader, hasSource) ==
  [body |-> body, model |-> model, authHeader |-> authHeader, hasSource |-> hasSource]

Bearer(l) == Auth("bearer", "", l)

\* The chat requests of the model: every body and every model string with
\* and without a credential, and the pools of each size on the channels with
\* a capability of this repository.
ChatRequests ==
  {ChatRequest(b, <<"gitee", "some-llm">>, Bearer(<<"t1">>), FALSE) : b \in Bodies}
  \cup {ChatRequest(b, <<"gitee", "qwen-image">>, Bearer(<<"t1">>), FALSE) : b \in Bodies}
  \cup {ChatRequest("ok", m, a, FALSE) :
          m \in ModelStrings, a \in {NoAuth, Bearer(<<"t1">>)}}
  \cup {ChatRequest("ok", m, a, FALSE) :
          m \in {<<"a4f", "gpt-image-1">>, <<"gitee", "some-llm">>, <<"z-image-turbo">>},
          a \in AuthHeaders}
  \cup {ChatRequest("ok", <<"image", "custom", "huggingface", "omni-edit">>,
                     Bearer(<<"t1">>), TRUE)}

\* The direct calls of generate of the model.
GenerateCalls ==
  {Call("hf", m, FALSE, NoToken) :
     m \in {"", "z-image-turbo", "omni-image", "omni-edit", "omni-upscale",
            "omni-dewatermark", "other"}}
  \cup {Call("hf", "omni-edit", TRUE, "t1"), Call("hf", "qwen-image-fast", FALSE, NoToken),
        WithSeed(Call("hf", "z-image-turbo", FALSE, NoToken), 0),
        WithSeed(Call("hf", "z-image", FALSE, NoToken), 7)}
  \cup {Call("a4f", m, FALSE, t) : m \in {"", "dall-e-3"}, t \in {NoToken, "t1"}}

\* ------------------------------------------------------------------ state
VARIABLES
  pc,        \* where the request is: "idle", "rotate", "op_start", "submit",
             \* "poll", "gradio_return", "a4f_fetch", "op_fetch", "op_return", "done"
  entry,     \* "chat": handleChatCompletion; "generate": a direct generate call
  registry,  \* the channel registry of the process
  h,         \* what handleChatCompletion resolved
  rot,       \* the rotation engine's activation
  call,      \* the capability operation in progress and its arguments
  gen,       \* huggingfaceImage.generate's activation
  q,         \* callGradioApi's activation
  ret,       \* the value or error being returned to the caller
  response,  \* what the entry point answered
  fetches,   \* whether an upstream network call was made for this request
  script,    \* the answers the submit loop of an earlier call consumed
  stage,     \* "first" call, "between" calls, "second" call, "compared"
  firstPhase, \* what the submit loop of the first call did
  initialized,   \* the registry's flag: the custom channels were constructed
  constructions, \* how many times the custom channels were constructed
  others,    \* how many other requests of the process have started
  arg,       \* the argument of the function applied last
  out        \* what that function returned or threw

vars ==
  <<pc, entry, registry, h, rot, call, gen, q, ret, response, fetches,
    script, stage, firstPhase, initialized, constructions, others, arg, out>>

\* The record of one process: it is written only where two calls are compared.
record == <<script, stage, firstPhase>>

\* The process-wide state of the channel registry besides its channels.
boot == <<initialized, constructions, others>>

\* The argument and the result of a function applied on its own.
pure == <<arg, out>>

NoArg == [f |-> "none"]
NoOut == [f |-> "none"]

\* What a retry loop did: the requests it sent, the delays it slept and the
\* error it raised ("none" when it ended on a 2xx response).
Phase(log, sleeps, o) ==
  [requests |-> Len(log), sleeps |-> sleeps,
   raised |-> IF log # <<>> /\ log[Len(log)] = 200 THEN "none"
              ELSE IF o.err.class = "ApiError" THEN o.err.code ELSE o.err.class]

NoPhase == [requests |-> 0, sleeps |-> <<>>, raised |-> "none"]

NoResponse == [sent |-> FALSE, ok |-> FALSE, err |-> NoError]
Sent(o) == [sent |-> TRUE, ok |-> o.ok, err |-> o.err]

\* What the handler resolved: the path it took, the channel, the
\* forced-anonymous mode and, once it computed them, the credential pool and
\* allowAnonymous.
Handler(auth, path, channelId, force, pooled, tokens, allowAnonymous) ==
  [auth |-> auth, path |-> path, channelId |-> channelId, forceAnonymous |-> force,
   pooled |-> pooled, tokens |-> tokens, allowAnonymous |-> allowAnonymous]

IdleHandler == Handler(Credentials(NoAuth), "none", "", FALSE, FALSE, <<>>, FALSE)

NewRotation(tokens, allowAnonymous) ==
  [tokens |-> tokens, allowAnonymous |-> allowAnonymous, idx |-> 1,
   invoked |-> <<>>, errs |-> <<>>]

IdleRotation == NewRotation(<<>>, FALSE)

IdleCall == Call("none", "", FALSE, NoToken)

Init ==
  /\ pc = "idle"
  /\ entry = "none"
  /\ registry \in {BuiltInRegistry(pool) : pool \in ConfigPools}
  /\ h = IdleHandler
  /\ rot = IdleRotation
  /\ call = IdleCall
  /\ gen = IdleGenerate
  /\ q = NewQueueJob
  /\ ret = NoRet
  /\ response = NoResponse
  /\ fetches = FALSE
  /\ script = <<>>
  /\ stage = "first"
  /\ firstPhase = NoPhase
  /\ initialized = FALSE
  /\ constructions = 0
  /\ others = 0
  /\ arg = NoArg
  /\ out = NoOut

\* ------------------------------------------------------ handleChatCompletion
\* The entry point answers and the request is over.
Respond(o) ==
  /\ response' = Sent(o)
  /\ pc' = "done"

\* The handler reached runWithTokenRotation.
StartRotation(auth, path, channelId, force, tokens, allowAnonymous, cap, model, hasSource) ==
  /\ h' = Handler(auth, path, channelId, force, TRUE, tokens, allowAnonymous)
  /\ rot' = NewRotation(tokens, allowAnonymous)
  /\ call' = Call(cap, model, hasSource, NoToken)
  /\ pc' = "rotate"
  /\ UNCHANGED <<response, ret>>

\* The handler answered an error before it computed the pool.
Reject(auth, path, channelId, force, err) ==
  /\ h' = Handler(auth, path, channelId, force, FALSE, <<>>, FALSE)
  /\ Respond(OpErr(err))
  /\ UNCHANGED <<rot, call, ret>>

\* The handler answered an error after it computed the pool.
RejectPooled(auth, path, channelId, force, tokens, allowAnonymous, err) ==
  /\ h' = Handler(auth, path, channelId, force, TRUE, tokens, allowAnonymous)
  /\ Respond(OpErr(err))
  /\ UNCHANGED <<rot, call, ret>>

allowsAnonymous(channel) == channel.authType = "none" \/ channel.optional

\* The pool that puts the configured credentials behind the caller's.
EffectiveTokensMixed(headerTokens, channel) == headerTokens \o channel.tokens

\* headerTokens.length ? headerTokens : channel.config.tokens || []
EffectiveTokens(headerTokens, channel) ==
  IF headerTokens # <<>> THEN headerTokens ELSE channel.tokens

ImagePath(body, auth, target, hasSource) ==
  LET channelId == target.channelId
      channel == registry'[channelId]
      tokens == EffectiveTokens(parseTokens(auth.token), channel)
      resolvedModel ==
        IF target.model # EmptyStr THEN ModelName(target.model) ELSE channel.firstImage
  IN
  IF auth.providerHint # "" /\ auth.providerHint # channelId
    THEN Reject(auth, "image", channelId, FALSE, invalidParams)
  ELSE IF ~getChannel(registry', channelId) \/ ~getImageChannel(registry', channelId)
    THEN Reject(auth, "image", channelId, FALSE, invalidParams)
  ELSE IF ~allowsAnonymous(channel) /\ tokens = <<>>
    THEN RejectPooled(auth, "image", channelId, FALSE, tokens, allowsAnonymous(channel),
                      authRequired)
  ELSE IF body = "flagsonly"
    THEN RejectPooled(auth, "image", channelId, FALSE, tokens, allowsAnonymous(channel),
                      invalidPrompt)
  ELSE StartRotation(auth, "image", channelId, FALSE, tokens, allowsAnonymous(channel),
                     channel.image, resolvedModel, hasSource)

LLMPath(auth, resolved) ==
  LET channelId == resolved.channelId
      force == resolved.forceAnonymous
      channel == registry'[channelId]
      headerTokens == IF force THEN <<>> ELSE parseTokens(auth.token)
      tokens == EffectiveTokens(headerTokens, channel)
      allowAnonymous == force \/ allowsAnonymous(channel)
  IN
  IF auth.providerHint # "" /\ auth.providerHint # channelId
    THEN Reject(auth, "llm", channelId, force, invalidParams)
  ELSE IF ~getChannel(registry', channelId) \/ ~getLLMChannel(registry', channelId)
    THEN Reject(auth, "llm", channelId, force, invalidParams)
  ELSE IF ~allowAnonymous /\ tokens = <<>>
    THEN RejectPooled(auth, "llm", channelId, force, tokens, allowAnonymous, authRequired)
  ELSE StartRotation(auth, "llm", channelId, force, tokens, allowAnonymous, "llm", "", FALSE)

\* The construction of the custom channels without its flag.
ensureCustomChannelsInitializedEveryCall ==
  /\ registry' = WithCustomChannels(BuiltInRegistry(registry["huggingface"].tokens))
  /\ initialized' = TRUE
  /\ constructions' = constructions + 1

\* Called at the head of every request: the first call constructs the
\* channels of the environment, every later call does nothing.
ensureCustomChannelsInitialized ==
  IF initialized THEN UNCHANGED <<registry, initialized, constructions>>
  ELSE /\ registry' = WithCustomChannels(registry)
       /\ initialized' = TRUE
       /\ constructions' = constructions + 1

handleChatCompletion(body, model, authHeader, hasSource) ==
  /\ pc = "idle"
  /\ entry' = "chat"
  /\ ensureCustomChannelsInitialized
  /\ LET auth == Credentials(authHeader)
         imageResolved == tryResolveImageModel(registry', model)
     IN
     IF body \in {"badjson", "nomodel", "nomessages", "nouser"}
       THEN Reject(auth, "none", "", FALSE, invalidParams)
     ELSE IF imageResolved.found
       THEN ImagePath(body, auth, imageResolved, hasSource)
     ELSE LLMPath(auth, resolveChatModel(model))
  /\ UNCHANGED <<gen, q, fetches, others>>

\* -------------------------------------------------------- direct generate
\* The routing layer calls a capability's generate itself, with no rotation.
callGenerate(c) ==
  /\ pc = "idle"
  /\ entry' = "generate"
  /\ call' = c
  /\ pc' = "op_start"
  /\ UNCHANGED <<registry, h, rot, gen, q, ret, response, fetches>>

\* The rotation engine with every classified error treated as
\* credential-scoped.
isCredentialScopedAnyCode(err) == err.class = "ApiError"

\* The rotation engine with AUTH_INVALID left out of the credential-scoped
\* kinds.
isCredentialScopedNoAuth(err) ==
  err.class = "ApiError" /\ err.code \in {"RATE_LIMITED", "QUOTA_EXCEEDED"}

\* ------------------------------------------------------- rotation engine
isCredentialScoped(err) ==
  err.class = "ApiError" /\ err.code \in {"AUTH_INVALID", "RATE_LIMITED", "QUOTA_EXCEEDED"}

\* The rotation engine going on to the next credential after a success too.
shouldRotateAfterSuccess(o, idx, tokens) ==
  (o.ok \/ isCredentialScoped(o.err)) /\ tokens # <<>> /\ idx < Len(tokens)

\* After a failure of operation(tokens[idx]): try the next credential?
shouldRotate(o, idx, tokens) ==
  ~o.ok /\ isCredentialScoped(o.err) /\ tokens # <<>> /\ idx < Len(tokens)

\* operation(token) is invoked.
Invoke(token) ==
  /\ rot' = [rot EXCEPT !.invoked = Append(@, token)]
  /\ call' = [call EXCEPT !.token = token]
  /\ pc' = "op_start"
  /\ UNCHANGED <<response, ret>>

\* runWithRotation at the head of its loop (or at its entry).
runWithRotation ==
  /\ pc = "rotate"
  /\ IF rot.tokens = <<>>
       THEN IF rot.allowAnonymous THEN Invoke(NoToken)
            ELSE Respond(OpErr(authRequired)) /\ UNCHANGED <<rot, call, ret>>
     ELSE Invoke(rot.tokens[rot.idx])
  /\ UNCHANGED <<entry, registry, h, gen, q, fetches>>

\* The operation returned or threw: to the rotation engine, and from it to
\* the handler, which sends the result or the error.  The activation of
\* generate is gone.
operationReturn ==
  /\ pc = "op_return"
  /\ IF entry = "chat" /\ shouldRotate(ret, rot.idx, rot.tokens)
       THEN /\ rot' = [rot EXCEPT !.idx = @ + 1, !.errs = Append(@, ret.err)]
            /\ pc' = "rotate"
            /\ UNCHANGED response
     ELSE /\ rot' = [rot EXCEPT !.errs = IF ret.ok \/ entry # "chat" THEN @
                                          ELSE Append(@, ret.err)]
          /\ Respond(ret)
  /\ gen' = IdleGenerate
  /\ UNCHANGED <<entry, registry, h, call, q, ret, fetches>>

\* ----------------------------------------------------------- callGradioApi
\* callGradioApi returns `o` to generate.
GradioReturn(o) ==
  /\ ret' = o
  /\ pc' = "gradio_return"

\* The loop that goes on without counting the attempt.
nextAttemptStuck(attempt) == attempt

\* attempt++ of the two for loops
nextAttempt(attempt) == attempt + 1

submitResponse(r) ==
  /\ pc = "submit"
  /\ LET logged == [q EXCEPT !.submits = Append(@, r.status)] IN
     IF r.kind = "reject"
       THEN GradioReturn(GradioErr(RawError("TypeError")))
            /\ q' = logged /\ UNCHANGED fetches
     ELSE IF r.status = 200
       THEN IF r.json = "malformed"
              THEN GradioReturn(GradioErr(RawError("SyntaxError")))
                   /\ q' = logged /\ UNCHANGED fetches
            ELSE IF r.json \in {"null", "noid"}
              THEN GradioReturn(GradioErr(providerError(NoMarkers)))
                   /\ q' = logged /\ UNCHANGED fetches
            ELSE /\ q' = [logged EXCEPT !.attempt = 0, !.id404 = (r.json = "id404")]
                 /\ pc' = "poll"
                 /\ fetches' = TRUE
                 /\ UNCHANGED ret
     ELSE IF shouldRetrySubmit(q.attempt, r.status)
       THEN /\ q' = [logged EXCEPT !.attempt = nextAttempt(@),
                                   !.submitSleeps = Append(@, BASE_DELAY * (q.attempt + 1))]
            /\ IF nextAttempt(q.attempt) < MAX_GRADIO_RETRIES
                 THEN fetches' = TRUE /\ UNCHANGED <<pc, ret>>
               ELSE GradioReturn(GradioErr(providerError(NoMarkers))) /\ UNCHANGED fetches
     ELSE GradioReturn(GradioErr(
            parseHuggingFaceError(StatusText(r.status) \cup r.errText, r.status)))
          /\ q' = logged /\ UNCHANGED fetches
  /\ UNCHANGED <<entry, registry, h, rot, call, gen, response>>

pollResponse(r) ==
  /\ pc = "poll"
  /\ LET logged == [q EXCEPT !.polls = Append(@, r.status)] IN
     IF r.kind = "reject"
       THEN GradioReturn(GradioErr(RawError("TypeError")))
            /\ q' = logged /\ UNCHANGED fetches
     ELSE IF r.status = 200
       THEN /\ GradioReturn(AfterPoll(r.text))
            /\ q' = [logged EXCEPT !.body = IF r.text = <<>> THEN "empty" ELSE "text"]
            /\ UNCHANGED fetches
     ELSE IF shouldRetryPoll(q.attempt, r.status)
       THEN /\ q' = [logged EXCEPT !.attempt = nextAttempt(@),
                                   !.pollSleeps = Append(@, BASE_DELAY * (q.attempt + 1))]
            /\ IF nextAttempt(q.attempt) < MAX_GRADIO_RETRIES
                 THEN fetches' = TRUE /\ UNCHANGED <<pc, ret>>
               ELSE GradioReturn(AfterPoll(<<>>)) /\ UNCHANGED fetches
     ELSE GradioReturn(GradioErr(
            parseHuggingFaceError(
              StatusText(r.status) \cup ResultUrlText(q.id404) \cup r.errText, r.status)))
          /\ q' = logged /\ UNCHANGED fetches
  /\ UNCHANGED <<entry, registry, h, rot, call, gen, response>>

\* ------------------------------------------------ huggingfaceImage.generate
\* The operation returns `o` to whoever invoked it.
OperationReturn(o) ==
  /\ ret' = o
  /\ pc' = "op_return"

\* generate up to its first callGradioApi.
huggingfaceGenerate ==
  /\ pc = "op_start"
  /\ call.cap = "hf"
  /\ LET modelId == IF call.model = "" THEN "z-image-turbo" ELSE call.model IN
     IF needsSourceImage(modelId) /\ ~call.hasSource
       THEN OperationReturn(OpErr(invalidParams)) /\ UNCHANGED <<gen, q, fetches>>
     ELSE /\ \E random \in RandomSeeds :
               gen' = [NewGenerate(modelId) EXCEPT
                         !.contacted = <<getCandidateBaseUrls(modelId)[1]>>,
                         !.seed = fixSeed(call.seed, random),
                         !.sent = <<buildDataSeed(modelId, fixSeed(call.seed, random))>>]
          /\ q' = NewQueueJob
          /\ pc' = "submit"
          /\ fetches' = TRUE
          /\ UNCHANGED ret
  /\ UNCHANGED <<entry, registry, h, rot, call, response>>

\* callGradioApi came back into the failover loop of generate; its
\* activation is gone.
generateAfterCall ==
  /\ pc = "gradio_return"
  /\ LET err == IF ret.ok THEN ImageFromResult(gen.modelId, ret.arr) ELSE ret.err IN
     IF err = NoError
       THEN /\ OperationReturn(OpOk)
            /\ gen' = [gen EXCEPT
                         !.reported = ret.arr.second,
                         !.resultSeed = parseSeedFromResponse(gen.modelId, ret.arr, gen.seed)]
            /\ q' = NewQueueJob
            /\ UNCHANGED fetches
     ELSE IF isNotFoundProviderError(err) /\ Len(gen.contacted) < Len(gen.candidates)
       THEN /\ gen' = [gen EXCEPT !.lastErr = err, !.errs = Append(@, err),
                                  !.contacted = Append(@, gen.candidates[Len(@) + 1]),
                                  !.sent = Append(@, buildDataSeed(gen.modelId, gen.seed))]
            /\ q' = NewQueueJob
            /\ pc' = "submit"
            /\ fetches' = TRUE
            /\ UNCHANGED ret
     ELSE /\ gen' = [gen EXCEPT !.lastErr = err, !.errs = Append(@, err)]
          /\ OperationReturn(OpErr(IF isNotFoundProviderError(err) THEN afterLoop(err)
                                   ELSE err))
          /\ q' = NewQueueJob
          /\ UNCHANGED fetches
  /\ UNCHANGED <<entry, registry, h, rot, call, response>>

\* ----------------------------------------------------- a4fImage.generate
A4FStatuses == {200, 401, 402, 403, 429, 500}
A4FBodies == {"url", "empty", "null", "quota", "message", "nonstring", "malformed"}

\* response.json().catch(() => ({}))
A4FData(body) == IF body = "malformed" THEN "empty" ELSE body

parseA4FError(status, data) ==
  IF data = "null" THEN RawError("TypeError")
  ELSE IF status = 401 \/ status = 403 THEN authInvalid(NoMarkers)
  ELSE IF status = 429 THEN rateLimited
  ELSE IF status = 402 THEN quotaExceeded
  ELSE IF data = "nonstring" THEN RawError("TypeError")
  ELSE IF data = "quota" THEN quotaExceeded
  ELSE providerError(NoMarkers)

\* generate without its token check.
a4fGenerateNoTokenCheck ==
  /\ pc = "op_start"
  /\ call.cap = "a4f"
  /\ pc' = "a4f_fetch"
  /\ fetches' = TRUE
  /\ UNCHANGED <<entry, registry, h, rot, call, gen, q, ret, response>>

a4fGenerate ==
  /\ pc = "op_start"
  /\ call.cap = "a4f"
  /\ IF call.token = NoToken
       THEN OperationReturn(OpErr(authRequired)) /\ UNCHANGED fetches
     ELSE /\ pc' = "a4f_fetch"
          /\ fetches' = TRUE
          /\ UNCHANGED ret
  /\ UNCHANGED <<entry, registry, h, rot, call, gen, q, response>>

a4fResponse(kind, status, body) ==
  /\ pc = "a4f_fetch"
  /\ LET data == A4FData(body) IN
     IF kind = "reject" THEN OperationReturn(OpErr(RawError("TypeError")))
     ELSE IF status # 200 THEN OperationReturn(OpErr(parseA4FError(status, data)))
     ELSE IF data = "null" THEN OperationReturn(OpErr(RawError("TypeError")))
     ELSE IF data = "url" THEN OperationReturn(OpOk)
     ELSE OperationReturn(OpErr(generationFailed))
  /\ UNCHANGED <<entry, registry, h, rot, call, gen, q, response, fetches>>

\* ------------------------------------------- the other capabilities
\* Any other image capability and every text-completion capability: one
\* upstream call that ends in a result or in an ApiError.
OperationErrors == ApiErrorCode \ {"AUTH_REQUIRED"}

operationStart ==
  /\ pc = "op_start"
  /\ call.cap \in {"generic", "llm"}
  /\ pc' = "op_fetch"
  /\ fetches' = TRUE
  /\ UNCHANGED <<entry, registry, h, rot, call, gen, q, ret, response>>

operationResponse(o) ==
  /\ pc = "op_fetch"
  /\ OperationReturn(o)
  /\ UNCHANGED <<entry, registry, h, rot, call, gen, q, response, fetches>>

\* ---------------------------------------------------------- specification
\* The upstream answers of the full system: one error body per class of
\* parseHuggingFaceError and one event stream per outcome.
SomeErrorResponses ==
  {Resp("http", st, NoMarkers, "null", <<>>) : st \in ErrorStatuses}
  \cup {Resp("http", 500, {"404"}, "null", <<>>), Resp("http", 404, {"exceeded"}, "null", <<>>)}

SomeSubmitResponses ==
  {RejectResponse} \cup SomeErrorResponses
  \cup {Resp("http", 200, NoMarkers, j, <<>>) : j \in {"id", "noid", "malformed"}}

SomePollResponses ==
  SomeErrorResponses \cup {Resp("http", 200, NoMarkers, "null", t) : t \in SomeStreams}

OperationOutcomes == {OpOk} \cup {OpErr(ApiError(c, NoMarkers)) : c \in OperationErrors}

Next ==
  \/ \E r \in ChatRequests :
       handleChatCompletion(r.body, r.model, r.authHeader, r.hasSource)
       /\ UNCHANGED <<record, pure>>
  \/ \E c \in GenerateCalls : callGenerate(c) /\ UNCHANGED <<record, boot, pure>>
  \/ runWithRotation /\ UNCHANGED <<record, boot, pure>>
  \/ operationReturn /\ UNCHANGED <<record, boot, pure>>
  \/ huggingfaceGenerate /\ UNCHANGED <<record, boot, pure>>
  \/ \E r \in SomeSubmitResponses : submitResponse(r) /\ UNCHANGED <<record, boot, pure>>
  \/ \E r \in SomePollResponses : pollResponse(r) /\ UNCHANGED <<record, boot, pure>>
  \/ generateAfterCall /\ UNCHANGED <<record, boot, pure>>
  \/ a4fGenerate /\ UNCHANGED <<record, boot, pure>>
  \/ \E kind \in {"reject", "http"}, status \in A4FStatuses, body \in A4FBodies :
       a4fResponse(kind, status, body) /\ UNCHANGED <<record, boot, pure>>
  \/ operationStart /\ UNCHANGED <<record, boot, pure>>
  \/ \E o \in OperationOutcomes : operationResponse(o) /\ UNCHANGED <<record, boot, pure>>

Spec == Init /\ [][Next]_vars

\* The capabilities called directly, against every upstream answer of the
\* model (every error body).  
NextCapability ==
  \/ \E c \in GenerateCalls : callGenerate(c) /\ UNCHANGED <<record, boot, pure>>
  \/ operationReturn /\ UNCHANGED <<record, boot, pure>>
  \/ huggingfaceGenerate /\ UNCHANGED <<record, boot, pure>>
  \/ \E r \in SubmitResponses : submitResponse(r) /\ UNCHANGED <<record, boot, pure>>
  \/ \E r \in PollResponses : pollResponse(r) /\ UNCHANGED <<record, boot, pure>>
  \/ generateAfterCall /\ UNCHANGED <<record, boot, pure>>
  \/ a4fGenerate /\ UNCHANGED <<record, boot, pure>>
  \/ \E kind \in {"reject", "http"}, status \in A4FStatuses, body \in A4FBodies :
       a4fResponse(kind, status, body) /\ UNCHANGED <<record, boot, pure>>

SpecCapability == Init /\ [][NextCapability]_vars

\* Two calls of callGradioApi by one process, the second after the first:
\* the submit loop of the first call is answered freely; the submit request
\* of the second call succeeds and its poll loop is answered what the submit
\* loop of the first call was.
Answer(r) == [kind |-> r.kind, status |-> r.status, errText |-> r.errText]

firstSubmit(r) ==
  /\ stage = "first"
  /\ submitResponse(r)
  /\ script' = Append(script, Answer(r))
  /\ IF pc' # "submit"
       THEN stage' = "between" /\ firstPhase' = Phase(q'.submits, q'.submitSleeps, ret')
     ELSE UNCHANGED <<stage, firstPhase>>
  /\ UNCHANGED <<boot, pure>>

\* The first request is over; the process takes the next one.
nextRequest ==
  /\ stage = "between"
  /\ stage' = "second"
  /\ pc' = "idle"
  /\ entry' = "none"
  /\ h' = IdleHandler
  /\ rot' = IdleRotation
  /\ call' = IdleCall
  /\ gen' = IdleGenerate
  /\ q' = NewQueueJob
  /\ ret' = NoRet
  /\ response' = NoResponse
  /\ fetches' = FALSE
  /\ UNCHANGED <<registry, script, firstPhase, boot, pure>>

secondSubmit(r) ==
  /\ stage = "second"
  /\ submitResponse(r)
  /\ UNCHANGED <<record, boot, pure>>

secondPoll(r) ==
  /\ stage = "second"
  /\ Len(q.polls) < Len(script) => Answer(r) = script[Len(q.polls) + 1]
  /\ pollResponse(r)
  /\ stage' = IF pc' # "poll" THEN "compared" ELSE stage
  /\ UNCHANGED <<script, firstPhase, boot, pure>>

PhaseCalls == {Call("hf", "z-image-turbo", FALSE, NoToken), Call("hf", "omni-image", FALSE, "t1")}

\* The answers to the first submit loop: every status, and an error body of
\* each class of parseHuggingFaceError.
PhaseResponses ==
  SomeSubmitResponses
  \cup {Resp("http", 503, {"forbidden"}, "null", <<>>),
        Resp("http", 500, {"timed out"}, "null", <<>>),
        Resp("http", 401, {"rate limit"}, "null", <<>>),
        Resp("http", 200, NoMarkers, "id404", <<>>)}

NextPhases ==
  \/ \E c \in PhaseCalls : callGenerate(c) /\ UNCHANGED <<record, boot, pure>>
  \/ huggingfaceGenerate /\ UNCHANGED <<record, boot, pure>>
  \/ \E r \in PhaseResponses : firstSubmit(r)
  \/ nextRequest
  \/ \E r \in {Resp("http", 200, NoMarkers, j, <<>>) : j \in {"id", "id404"}} : secondSubmit(r)
  \/ \E r \in PollResponses : secondPoll(r)

SpecPhases == Init /\ [][NextPhases]_vars

\* ------------------------------------------------- functions on their own
\* The state of the request, which no function applied on its own touches.
request == <<pc, entry, registry, h, rot, call, gen, q, ret, response, fetches>>

Object(err, msg, text) == Json("object", err, msg, NoArray, text)

NullPayload == Json("null", Absent, Absent, NoArray, NoMarkers)
MalformedPayload(text) == Json("malformed", Absent, Absent, NoArray, text)

\* The payloads of the `data:` lines of the bounded streams.
StreamPayloads ==
  {Json("array", Absent, Absent, ArrUrl, NoMarkers),
   Json("objdata", Absent, Absent, ArrObjUrl, NoMarkers),
   Object(Str({"quota"}), Str({"404"}), {"quota", "404"}),
   Object(NonStr, Absent, NoMarkers),
   MalformedPayload({"timeout"}),
   NullPayload}

StreamLines ==
  {EventLine(n) : n \in {"complete", "error", "heartbeat"}}
  \cup {DataLine(j) : j \in StreamPayloads}
  \cup {LongLine}

\* The payloads of an `error` event: each way its `error` and `message`
\* fields can be absent, falsy, a string or something else.
ErrorPayloads ==
  {Object(e, m, (IF e.k = "str" THEN e.m ELSE NoMarkers)
                \cup (IF m.k = "str" THEN m.m ELSE NoMarkers) \cup t) :
     e \in {Absent, Falsy, NonStr, Str(NoMarkers), Str({"rate limit"})},
     m \in {Absent, Falsy, NonStr, Str({"forbidden"})},
     t \in {NoMarkers, {"loading"}}}
  \cup {NullPayload, MalformedPayload(NoMarkers), MalformedPayload({"exceeded"})}

\* The payloads of a `complete` event: each shape of JSON value.
CompletePayloads ==
  {Json(t, Absent, Absent, a, NoMarkers) : t \in {"array", "objdata"}, a \in ResultArrays}
  \cup {Json("scalar", Absent, Absent, NoArray, NoMarkers), NullPayload,
        Object(Absent, Absent, {"404"}), MalformedPayload(NoMarkers)}

Streams ==
  UNION {[1..n -> StreamLines] : n \in 0..MaxLines}
  \cup {<<EventLine("error"), DataLine(j)>> : j \in ErrorPayloads}
  \cup {<<EventLine("complete"), DataLine(j)>> : j \in CompletePayloads}

\* extractCompleteEventData applied to a body.
parseEventStream(sseStream) ==
  /\ arg = NoArg
  /\ arg' = [f |-> "extractCompleteEventData", stream |-> sseStream]
  /\ out' = extractCompleteEventData(sseStream)
  /\ UNCHANGED <<request, record, boot>>

\* The end of callGradioApi applied to the payload extracted.
normalizeResultArray ==
  /\ arg.f = "extractCompleteEventData"
  /\ out.ok
  /\ arg' = [f |-> "normalizeComplete", payload |-> out.val]
  /\ out' = normalizeComplete(out.val)
  /\ UNCHANGED <<request, record, boot>>

NextStream ==
  \/ arg = NoArg /\ \E sseStream \in Streams : parseEventStream(sseStream)
  \/ normalizeResultArray

SpecStream == Init /\ [][NextStream]_vars

\* The messages of up to MaxMarkers markers and the statuses the classifier
\* tells apart (0: no status given; 404 and 500: no rule of their own).
Messages == {m \in SUBSET Markers : Cardinality(m) <= MaxMarkers}
Statuses == {0, 401, 403, 404, 429, 500, 503}

\* parseHuggingFaceError applied to a message and a status.
classify(message, status) ==
  /\ arg' = [f |-> "parseHuggingFaceError", message |-> message, status |-> status]
  /\ out' = Thrown(parseHuggingFaceError(message, status))
  /\ UNCHANGED <<request, record, boot>>

NextClassify ==
  arg = NoArg /\ \E message \in Messages, status \in Statuses : classify(message, status)

SpecClassify == Init /\ [][NextClassify]_vars

\* The segments model strings are made of, and the model strings of up to
\* MaxSegments segments.
Segments ==
  {"", " ", "gitee", " gitee", "ms", "a4f", "custom", "myhost", "qwen-image", "qwen-image ",
   "flux-2", "z-image-turbo", "some-model", "constructor", "pollinations", "hf", "image",
   "gpt-image-1", "gemini-2.5-flash-lite"}

ModelParams == UNION {[1..n -> Segments] : n \in 1..MaxSegments}

\* A model string resolved by each of the three resolvers of a request; the
\* image resolver reads the registry the request has initialised.
resolve(modelParam) ==
  /\ arg' = [f |-> "resolveModel", model |-> modelParam]
  /\ out' = [plain |-> resolveModel(modelParam),
             chat |-> resolveChatModel(modelParam),
             image |-> tryResolveImageModel(WithCustomChannels(registry), modelParam),
             known |-> isKnownImageModel(modelParam)]
  /\ UNCHANGED <<request, record, boot>>

NextResolve == arg = NoArg /\ \E modelParam \in ModelParams : resolve(modelParam)

SpecResolve == Init /\ [][NextResolve]_vars

\* ------------------------------------------------- requests of a process
\* Another request of the same process enters the handler while this one
\* has not started, is suspended at a network call or is over: its first
\* statement is the initialisation of the custom channels.
otherRequest ==
  /\ others < MaxRequests
  /\ ensureCustomChannelsInitialized
  /\ others' = others + 1
  /\ UNCHANGED <<pc, entry, h, rot, call, gen, q, ret, response, fetches>>

\* The requests followed through the handler next to the other ones: to a
\* custom channel and to a built-in one, with and without a credential.
ProcessRequests ==
  {ChatRequest("ok", model, a, FALSE) :
     model \in {<<"custom", "myhost", "some-model">>, <<"gitee", "some-llm">>,
                <<"custom", "nowhere", "m">>},
     a \in {NoAuth, Bearer(<<"t1">>), Bearer(<<"t1", "t2">>)}}

NextProcess ==
  \/ \E r \in ProcessRequests :
       handleChatCompletion(r.body, r.model, r.authHeader, r.hasSource)
       /\ UNCHANGED <<record, pure>>
  \/ otherRequest /\ UNCHANGED <<record, pure>>
  \/ runWithRotation /\ UNCHANGED <<record, boot, pure>>
  \/ operationStart /\ UNCHANGED <<record, boot, pure>>
  \/ \E o \in OperationOutcomes : operationResponse(o) /\ UNCHANGED <<record, boot, pure>>
  \/ operationReturn /\ UNCHANGED <<record, boot, pure>>

SpecProcess == Init /\ [][NextProcess]_vars

\* -------------------------------------------------- messages of a request
\* A message: its role, its text ("" blank, "plain", or "flag" for a text
\* with an --image flag) and the urls of its image_url parts in order ("" is
\* a part without url).
Message(role, text, images) == [role |-> role, text |-> text, images |-> images]

\* content.find(image_url part)?.image_url?.url; "" stands for undefined
getImageUrlFromContent(message) ==
  IF message.images = <<>> THEN "" ELSE message.images[1]

\* The loops of getLastUserPrompt and getLastUserImageUrl, downwards from
\* message i; the result is the index of the message the value is taken
\* from, 0 for null.
RECURSIVE LastUserPromptFrom(_, _)
LastUserPromptFrom(messages, i) ==
  IF i = 0 THEN 0
  ELSE IF messages[i].role = "user" /\ messages[i].text # "" THEN i
  ELSE LastUserPromptFrom(messages, i - 1)

RECURSIVE LastUserImageUrlFrom(_, _)
LastUserImageUrlFrom(messages, i) ==
  IF i = 0 THEN 0
  ELSE IF messages[i].role = "user" /\ getImageUrlFromContent(messages[i]) # "" THEN i
  ELSE LastUserImageUrlFrom(messages, i - 1)

getLastUserPrompt(messages) == LastUserPromptFrom(messages, Len(messages))
getLastUserImageUrl(messages) == LastUserImageUrlFrom(messages, Len(messages))

\* getUserPrompt is not null: some user message has a text
getUserPrompt(messages) ==
  \E i \in 1..Len(messages) : messages[i].role = "user" /\ messages[i].text # ""

\* multimodalImageUrl || promptImageUrl: the message the source image is
\* taken from and whether it is an image part or the --image flag of the
\* prompt.
NoSource == [from |-> 0, kind |-> "none"]

sourceImageUrl(messages) ==
  IF getLastUserImageUrl(messages) # 0
    THEN [from |-> getLastUserImageUrl(messages), kind |-> "part"]
  ELSE IF getLastUserPrompt(messages) # 0 /\ messages[getLastUserPrompt(messages)].text = "flag"
    THEN [from |-> getLastUserPrompt(messages), kind |-> "flag"]
  ELSE NoSource

ChatMessages ==
  {Message(role, text, images) :
     role \in {"user", "assistant"}, text \in {"", "plain", "flag"},
     images \in {<<>>, <<"url">>, <<"", "url">>}}

MessageLists == UNION {[1..n -> ChatMessages] : n \in 1..MaxMessages}

\* What the image path of the handler reads from the messages of a request.
readMessages(messages) ==
  /\ arg' = [f |-> "getLastUserImageUrl", messages |-> messages]
  /\ out' = [userPrompt |-> getUserPrompt(messages),
             prompt |-> getLastUserPrompt(messages),
             image |-> getLastUserImageUrl(messages),
             source |-> sourceImageUrl(messages)]
  /\ UNCHANGED <<request, record, boot>>

NextMessages == arg = NoArg /\ \E messages \in MessageLists : readMessages(messages)

SpecMessages == Init /\ [][NextMessages]_vars

\* ------------------------------------------------------------ termination
\* One HuggingFace generate call, every request of which is answered: the
\* upstream chooses the responses, and a request that has been sent gets
\* its response, or its rejection, after a finite time.
TerminationCalls ==
  {Call("hf", m, FALSE, NoToken) : m \in {"z-image-turbo", "z-image", "omni-image", "omni-edit"}}

NextTermination ==
  \/ \E c \in TerminationCalls : callGenerate(c) /\ UNCHANGED <<record, boot, pure>>
  \/ huggingfaceGenerate /\ UNCHANGED <<record, boot, pure>>
  \/ \E r \in SomeSubmitResponses : submitResponse(r) /\ UNCHANGED <<record, boot, pure>>
  \/ \E r \in SomePollResponses : pollResponse(r) /\ UNCHANGED <<record, boot, pure>>
  \/ generateAfterCall /\ UNCHANGED <<record, boot, pure>>

SpecTermination == Init /\ [][NextTermination]_vars /\ WF_vars(NextTermination)

\* ------------------------------------------------------------ properties
\* A rotation over a non-empty pool is in progress or over.
Rotating == entry = "chat" /\ rot.tokens # <<>>

\* The rotation is over and every invocation it made failed.
RotationFailed ==
  Rotating /\ pc = "done" /\ rot.invoked # <<>> /\ Len(rot.errs) = Len(rot.invoked)

CredentialScopedCodes == {"AUTH_INVALID", "RATE_LIMITED", "QUOTA_EXCEEDED"}

AbortingCodes ==
  {"INVALID_PARAMS", "INVALID_PROMPT", "PROVIDER_ERROR", "TIMEOUT", "GENERATION_FAILED"}

HasCode(err, codes) == err.class = "ApiError" /\ err.code \in codes

\* C1: in a rotation over a pool of credentials, a failure of kind
\* AUTH_INVALID, RATE_LIMITED or QUOTA_EXCEEDED on a credential that is not
\* the last one is followed by the invocation of the next credential; after a
\* failure of kind INVALID_PARAMS, INVALID_PROMPT, PROVIDER_ERROR, TIMEOUT or
\* GENERATION_FAILED no later credential is invoked and that error is what
\* the rotation answers.
C1_RotationAdvancesOrAborts ==
  Rotating =>
    /\ \A j \in 1..Len(rot.errs) :
         /\ HasCode(rot.errs[j], AbortingCodes) =>
              /\ j = Len(rot.invoked)
              /\ pc = "done"
              /\ response = Sent(OpErr(rot.errs[j]))
         /\ (HasCode(rot.errs[j], CredentialScopedCodes) /\ j < Len(rot.tokens)) =>
              /\ pc # "done" \/ Len(rot.invoked) > j
              /\ pc = "op_start" => Len(rot.invoked) > j
    /\ rot.invoked = SubSeq(rot.tokens, 1, Len(rot.invoked))

\* The first of two credentials failed with TIMEOUT and the rotation is over.
C1_Witness ==
  /\ RotationFailed
  /\ Len(rot.tokens) = 2
  /\ rot.invoked = <<rot.tokens[1]>>
  /\ rot.errs[1].code = "TIMEOUT"

\* C2: the rotation answers the result of the first credential, in pool
\* order, whose operation succeeds: when an operation returns successfully,
\* every earlier credential of the pool was invoked and failed, the next step
\* answers the success without another invocation, and nothing happens after
\* the answer.
C2_FirstSuccessReturned ==
  [][/\ (Rotating /\ pc = "op_return" /\ ret.ok) =>
          /\ rot.invoked = SubSeq(rot.tokens, 1, Len(rot.invoked))
          /\ Len(rot.errs) = Len(rot.invoked) - 1
          /\ pc' = "done"
          /\ response' = Sent(OpOk)
          /\ rot'.invoked = rot.invoked
     /\ (Rotating /\ pc = "done") => rot'.invoked = rot.invoked]_vars

\* The first of two credentials succeeded and the second was never invoked.
C2_Witness ==
  /\ Rotating
  /\ pc = "done"
  /\ response = Sent(OpOk)
  /\ Len(rot.tokens) = 2
  /\ rot.invoked = <<rot.tokens[1]>>

\* C3: when the operation fails with AUTH_INVALID for every credential, the
\* rotation invokes it exactly once per credential, in pool order, and then
\* answers the last of those errors.
C3_AllInvalidTriesEach ==
  (RotationFailed /\ \A j \in 1..Len(rot.errs) : HasCode(rot.errs[j], {"AUTH_INVALID"}))
    => /\ rot.invoked = rot.tokens
       /\ response = Sent(OpErr(rot.errs[Len(rot.errs)]))

\* Two credentials, both rejected with AUTH_INVALID.
C3_Witness ==
  /\ RotationFailed
  /\ Len(rot.tokens) = 2
  /\ Len(rot.errs) = 2
  /\ \A j \in 1..2 : rot.errs[j].code = "AUTH_INVALID"

\* C4: with an empty effective pool and a channel that does not allow
\* anonymous calls, the chat request is answered AUTH_REQUIRED with no
\* operation invoked and no network call made; and A4F generate called
\* without a token raises AUTH_REQUIRED before any fetch.
C4_AuthRequiredBeforeNetwork ==
  /\ (entry = "chat" /\ h.pooled /\ h.tokens = <<>> /\ ~h.allowAnonymous) =>
       /\ pc = "done"
       /\ response = Sent(OpErr(authRequired))
       /\ rot.invoked = <<>>
       /\ ~fetches
  /\ (call.cap = "a4f" /\ call.token = NoToken /\ pc \notin {"rotate", "op_start"}) =>
       /\ ~fetches
       /\ pc \in {"op_return", "done"}
       /\ pc = "op_return" => ret = OpErr(authRequired)
       /\ pc = "done" => response = Sent(OpErr(authRequired))

\* A4F generate was called without a token and has returned.
C4_Witness ==
  /\ call.cap = "a4f"
  /\ call.token = NoToken
  /\ pc = "op_return"
  /\ ret = OpErr(authRequired)

NonDecreasing(seq) == \A i, j \in 1..Len(seq) : i <= j => seq[i] <= seq[j]

AllAre(log, status) == log # <<>> /\ \A i \in 1..Len(log) : log[i] = status

\* C5: when every response to the submit request is 503, callGradioApi sends
\* exactly 3 submit requests, with non-decreasing delays between consecutive
\* ones, then raises a classified error, and sends no poll request.
C5_SubmitGivesUpAfterThree ==
  AllAre(q.submits, 503) =>
    /\ Len(q.submits) <= MAX_GRADIO_RETRIES
    /\ q.polls = <<>>
    /\ pc \in {"submit", "gradio_return"}
    /\ pc = "submit" =>
         /\ Len(q.submits) < MAX_GRADIO_RETRIES
         /\ Len(q.submitSleeps) = Len(q.submits)
    /\ pc = "gradio_return" =>
         /\ Len(q.submits) = MAX_GRADIO_RETRIES
         /\ Len(q.submitSleeps) = MAX_GRADIO_RETRIES - 1
         /\ NonDecreasing(q.submitSleeps)
         /\ ~ret.ok
         /\ ret.err.class = "ApiError"

\* Three submit requests were answered 503 and the call has ended.
C5_Witness == pc = "gradio_return" /\ q.submits = <<503, 503, 503>>

\* The statuses neither successful nor retried (0 stands for a request that
\* got no response).
Fatal(status) == status \notin {0, 200, 404, 503}

\* A fatal status in a phase's log is its last entry, the call has ended with
\* a classified error, and the phase slept only before that request.
RaisedAtOnce(log, sleeps) ==
  \A i \in 1..Len(log) :
    Fatal(log[i]) =>
      /\ i = Len(log)
      /\ pc = "gradio_return"
      /\ ~ret.ok
      /\ ret.err.class = "ApiError"
      /\ Len(sleeps) = i - 1

\* C6: a response with a non-2xx status other than 404 and 503, to the
\* submit request or to the poll request, is classified and raised on its
\* first occurrence, whatever the attempt: no sleep follows it and no further
\* request of that phase is sent.
C6_OtherStatusRaisedAtOnce ==
  /\ RaisedAtOnce(q.submits, q.submitSleeps)
  /\ RaisedAtOnce(q.polls, q.pollSleeps)
  /\ (\E i \in 1..Len(q.submits) : Fatal(q.submits[i])) => q.polls = <<>>

\* A 404 was retried and the 500 that followed it ended the call.
C6_Witness == pc = "gradio_return" /\ q.submits = <<404, 500>>

\* C7: answered the same responses, the poll loop sends as many requests,
\* sleeps the same delays and raises an error of the same kind as the submit
\* loop; and a 2xx poll response with an empty body raises PROVIDER_ERROR.
C7_PollRetriesLikeSubmit ==
  /\ stage = "compared" => Phase(q.polls, q.pollSleeps, ret) = firstPhase
  /\ q.body = "empty" =>
       /\ pc = "gradio_return"
       /\ ~ret.ok
       /\ ret.err = providerError(NoMarkers)

\* Both loops were answered 404, 404, 404 and gave up after the third.
C7_Witness ==
  /\ stage = "compared"
  /\ q.polls = <<404, 404, 404>>
  /\ firstPhase.requests = 3
  /\ firstPhase.raised = "PROVIDER_ERROR"

\* The error is a provider error whose upstream details mention 404.
NotFound(err) == HasCode(err, {"PROVIDER_ERROR"}) /\ "404" \in err.upstream

\* C8: generate contacts its candidate base URLs in order; an attempt that
\* fails with a 404-classified provider error is followed by the next
\* candidate, and an attempt that fails with any other error ends the call
\* with that error, no remaining candidate contacted.
C8_FailoverOnNotFoundOnly ==
  /\ gen.contacted = SubSeq(gen.candidates, 1, Len(gen.contacted))
  /\ Len(gen.errs) <= Len(gen.contacted)
  /\ \A i \in 1..Len(gen.errs) :
       /\ (NotFound(gen.errs[i]) /\ i < Len(gen.candidates)) => i < Len(gen.contacted)
       /\ ~NotFound(gen.errs[i]) =>
            /\ i = Len(gen.contacted)
            /\ pc = "op_return"
            /\ ret = OpErr(gen.errs[i])

\* The first candidate was not found and the second failed otherwise.
C8_Witness ==
  /\ pc = "op_return"
  /\ Len(gen.contacted) = 2
  /\ Len(gen.errs) = 2
  /\ NotFound(gen.errs[1])
  /\ gen.errs[2].code = "AUTH_INVALID"

\* Every candidate was contacted and failed with a not-found provider error.
Exhausted ==
  /\ pc = "op_return"
  /\ gen.candidates # <<>>
  /\ Len(gen.errs) = Len(gen.candidates)
  /\ \A i \in 1..Len(gen.errs) : NotFound(gen.errs[i])

\* C9, as the specification states it: when every candidate failed with a
\* not-found error, generate raises GENERATION_FAILED.
C9_ExhaustedRaisesGenerationFailed ==
  Exhausted => (~ret.ok /\ HasCode(ret.err, {"GENERATION_FAILED"}))

\* C9, amended: when every candidate failed with a not-found error, generate
\* raises the error of the last candidate, a PROVIDER_ERROR whose upstream
\* details mention 404; it raises GENERATION_FAILED only when the last attempt
\* returned a result with no image URL in it.
C9_ExhaustedRaisesLastError ==
  /\ Exhausted => /\ ret = OpErr(gen.errs[Len(gen.errs)])
                  /\ HasCode(ret.err, {"PROVIDER_ERROR"})
  /\ (pc = "op_return" /\ call.cap = "hf" /\ HasCode(ret.err, {"GENERATION_FAILED"})) =>
       /\ gen.errs # <<>>
       /\ gen.errs[Len(gen.errs)] = generationFailed

\* Both candidates of a model were not found.
C9_Witness == Exhausted /\ Len(gen.candidates) = 2

\* C10, as the specification states it: every failure that leaves
\* callGradioApi or a generate operation is an ApiError.
C10_OnlyApiErrorsLeave ==
  (pc \in {"gradio_return", "op_return"} /\ ~ret.ok) => ret.err.class = "ApiError"

\* The event name in force at line i: that of the last `event:` line before.
EventAt(stream, i) ==
  LET events == {j \in 1..(i - 1) : stream[j].k = "event"} IN
  IF events = {} THEN ""
  ELSE stream[CHOOSE j \in events : \A k \in events : k <= j].name

\* Line i is a `data:` line under a `complete` or an `error` event.
Terminal(stream, i) ==
  stream[i].k = "data" /\ EventAt(stream, i) \in {"complete", "error"}

\* The first such line, 0 when the body has none.
FirstTerminal(stream) ==
  LET terminals == {i \in 1..Len(stream) : Terminal(stream, i)} IN
  IF terminals = {} THEN 0 ELSE CHOOSE i \in terminals : \A j \in terminals : i <= j

Extracted == arg.f = "extractCompleteEventData"

\* C11: extractCompleteEventData returns the parsed payload of the first
\* `data:` line whose current event (the last `event:` line before it) is
\* `complete`, when no `data:` line under `error` precedes it: the lines
\* after it, a later error or a second complete among them, change nothing,
\* and `data:` lines under other event names are passed over.
C11_FirstCompleteWins ==
  Extracted =>
    LET i == FirstTerminal(arg.stream) IN
    (i > 0 /\ EventAt(arg.stream, i) = "complete" /\ arg.stream[i].json.t # "malformed")
      => out = Returned(arg.stream[i].json)

\* A complete event followed by an error event: the complete payload is
\* returned.
C11_Witness ==
  /\ Extracted
  /\ Len(arg.stream) = 4
  /\ FirstTerminal(arg.stream) = 2
  /\ arg.stream[3] = EventLine("error")
  /\ arg.stream[4].k = "data"
  /\ out.ok

\* The message the specification gives an `error` event.
ErrorMessage(json) ==
  IF json.t = "malformed" THEN json.text
  ELSE IF json.err.k \notin {"absent", "falsy"} THEN json.err.m
  ELSE IF json.msg.k \notin {"absent", "falsy"} THEN json.msg.m
  ELSE json.text

\* C12, as the specification states it: at a `data:` line under `error`
\* that precedes every complete data line, extractCompleteEventData raises
\* the classifier's error for the body's `error` field, else its `message`
\* field, else the raw JSON text, and for the raw text when the body is not
\* valid JSON.
C12_ErrorEventClassified ==
  Extracted =>
    LET i == FirstTerminal(arg.stream) IN
    (i > 0 /\ EventAt(arg.stream, i) = "error")
      => out = Thrown(parseHuggingFaceError(ErrorMessage(arg.stream[i].json), 0))

\* The markers within the first 200 characters of a body: those of the
\* lines that no long line precedes.
First200(stream) ==
  UNION {stream[i].json.text :
           i \in {k \in 1..Len(stream) :
                    stream[k].k = "data" /\ \A j \in 1..k : stream[j] # LongLine}}

\* C13: when the body has no `data:` line under a `complete` or `error`
\* event, extractCompleteEventData raises PROVIDER_ERROR with the first 200
\* characters of the body, and nothing beyond them, in its message.
C13_NoTerminalEventRaisesPrefix ==
  (Extracted /\ FirstTerminal(arg.stream) = 0)
    => out = Thrown(ApiError("PROVIDER_ERROR", First200(arg.stream)))

\* A body whose only 404 lies beyond its first 200 characters.
C13_Witness ==
  /\ Extracted
  /\ Len(arg.stream) = 3
  /\ FirstTerminal(arg.stream) = 0
  /\ arg.stream[2] = LongLine
  /\ arg.stream[3].k = "data"
  /\ "404" \in arg.stream[3].json.text
  /\ ~out.ok

\* C14: a bare array, and an object whose `data` field is an array, are both
\* normalised to that array; every other payload (null, a scalar, an object
\* without an array under `data`) raises PROVIDER_ERROR.
C14_PayloadNormalised ==
  arg.f = "normalizeComplete" =>
    IF arg.payload.t \in {"array", "objdata"}
      THEN out = [ok |-> TRUE, arr |-> arg.payload.arr, err |-> NoError]
    ELSE ~out.ok /\ HasCode(out.err, {"PROVIDER_ERROR"})

\* An object holding the array under `data` was normalised to the array.
C14_Witness ==
  /\ arg.f = "normalizeComplete"
  /\ arg.payload.t = "objdata"
  /\ out.ok
  /\ out.arr = ArrUrl

Classified == arg.f = "parseHuggingFaceError"

Mentions(words) == arg.message \cap words # {}

RateLimitRule == arg.status = 429 \/ Mentions({"rate limit", "too many requests"})
QuotaRule == Mentions({"quota", "exceeded"})
AuthRule == arg.status \in {401, 403} \/ Mentions({"unauthorized", "forbidden"})
TimeoutRule == Mentions({"timeout", "timed out"})

\* C15, as the specification states it: a status 401 or 403 is always
\* classified AUTH_INVALID and a status 503 always PROVIDER_ERROR, whatever
\* text the message carries.
C15_StatusDecides ==
  Classified =>
    /\ arg.status \in {401, 403} => HasCode(out.err, {"AUTH_INVALID"})
    /\ arg.status = 503 => HasCode(out.err, {"PROVIDER_ERROR"})

\* C15, amended: parseHuggingFaceError gives every (status, message) pair
\* the kind of the first rule that matches, in the order rate limit, quota,
\* authorization, timeout, and PROVIDER_ERROR when none does; so a status
\* 401 or 403 is AUTH_INVALID only without rate-limit or quota text, and a
\* status 503 is PROVIDER_ERROR only without rate-limit, quota,
\* authorization or timeout text.
C15_FirstRuleDecides ==
  Classified =>
    /\ ~out.ok
    /\ out.err.class = "ApiError"
    /\ out.err.code =
         IF RateLimitRule THEN "RATE_LIMITED"
         ELSE IF QuotaRule THEN "QUOTA_EXCEEDED"
         ELSE IF AuthRule THEN "AUTH_INVALID"
         ELSE IF TimeoutRule THEN "TIMEOUT"
         ELSE "PROVIDER_ERROR"

\* A 401 whose message mentions a quota is classified QUOTA_EXCEEDED.
C15_Witness ==
  /\ Classified
  /\ arg.status = 401
  /\ arg.message = {"quota"}
  /\ out.err.code = "QUOTA_EXCEEDED"

ResolvedModel == arg.f = "resolveModel"

\* The trimmed model string is <prefix>/<x>.
Prefixed(prefix) == ResolvedModel /\ startsWith(Trim(arg.model), prefix)

\* <x>, and the alias-table entry it has, if any
Suffix == Tail(Trim(arg.model))
AliasOf(table) == IF Suffix \in DOMAIN table THEN table[Suffix] ELSE Suffix

\* C16: resolveModel maps gitee/<x> to channel gitee and ms/<x> to channel
\* modelscope, with <x> replaced by its alias-table entry when it has one
\* and passed through unchanged when it has none, and a4f/<x> to channel a4f
\* with model <x>.
C16_PrefixStrippedAliasApplied ==
  /\ Prefixed("gitee") => out.plain = Resolved("gitee", AliasOf(GITEE_MODEL_ALIASES))
  /\ Prefixed("ms") => out.plain = Resolved("modelscope", AliasOf(MODELSCOPE_MODEL_ALIASES))
  /\ Prefixed("a4f") => out.plain = Resolved("a4f", Suffix)

\* The examples of C16 hold.
C16_Witness ==
  \/ /\ ResolvedModel
     /\ arg.model = <<"gitee", "qwen-image">>
     /\ out.plain = Resolved("gitee", <<"Qwen-Image">>)
  \/ /\ ResolvedModel
     /\ arg.model = <<"ms", "flux-2">>
     /\ out.plain = Resolved("modelscope", <<"black-forest-labs", "FLUX.2-dev">>)

\* The trimmed model string is custom/<channelId>/<rest> with a channel id
\* that is not blank.
CustomForm ==
  /\ Prefixed("custom")
  /\ Len(Suffix) >= 2
  /\ TrimSeg(Suffix[1]) # ""

\* C17, as the specification states it: resolveModel resolves
\* custom/<channelId>/<rest> to channel <channelId> with model <rest>.
C17_ResolveModelSplitsCustom ==
  CustomForm =>
    /\ out.plain.provider = TrimSeg(Suffix[1])
    /\ out.plain.model = Trim(Tail(Suffix))

\* C17, amended: resolveChatModel resolves custom/<channelId>/<rest>, split
\* at the first "/" after the prefix, to the trimmed channel id and the
\* trimmed rest, without forced-anonymous mode; a custom/ string without
\* that "/" or with a blank channel id falls through to the default rule;
\* resolveModel has no custom rule and gives huggingface / z-image-turbo.
C17_ChatModelSplitsCustom ==
  /\ CustomForm =>
       /\ out.chat = ChatModel(TrimSeg(Suffix[1]), Trim(Tail(Suffix)), FALSE)
       /\ out.plain = Resolved("huggingface", DEFAULT_HF_MODEL)
  /\ Prefixed("custom") /\ ~CustomForm =>
       out.chat = ChatModel("huggingface", Trim(arg.model), TRUE)

\* custom/myhost/some-model: channel myhost and model some-model from
\* resolveChatModel, the default from resolveModel.
C17_Witness ==
  /\ ResolvedModel
  /\ arg.model = <<"custom", "myhost", "some-model">>
  /\ out.chat = ChatModel("myhost", <<"some-model">>, FALSE)
  /\ out.plain = Resolved("huggingface", <<"z-image-turbo">>)

\* The prefixes each resolver knows.
ModelPrefixes == {"gitee", "ms", "a4f"}
ChatPrefixes == {"gitee", "ms", "hf", "deepseek", "pollinations", "a4f"}

HasPrefix(prefixes) == \E prefix \in prefixes : Prefixed(prefix)

\* A model string that is not empty after trimming and matches no prefix of
\* either resolver.
Unprefixed ==
  /\ ResolvedModel
  /\ Trim(arg.model) # EmptyStr
  /\ ~HasPrefix(ModelPrefixes \cup ChatPrefixes \cup {"custom"})

\* C18, as the specification states it: an unprefixed model string gives
\* the default channel with the whole trimmed string as the model id, and
\* the empty string gives huggingface / z-image-turbo.
C18_UnknownModelKept ==
  /\ Unprefixed => out.plain = Resolved("huggingface", Trim(arg.model))
  /\ ResolvedModel /\ arg.model = EmptyStr =>
       out.plain = Resolved("huggingface", <<"z-image-turbo">>)

\* C18, amended: for an unprefixed model string resolveChatModel gives
\* huggingface with the whole trimmed string, forced anonymous, while
\* resolveModel keeps it only when it is one of its four HuggingFace model
\* ids and replaces it by z-image-turbo otherwise; for the empty or blank
\* string resolveModel gives huggingface / z-image-turbo and
\* resolveChatModel huggingface / openai-fast, forced anonymous.
C18_UnknownModelKeptByChatOnly ==
  /\ Unprefixed =>
       /\ out.chat = ChatModel("huggingface", Trim(arg.model), TRUE)
       /\ out.plain =
            Resolved("huggingface",
                     IF Trim(arg.model) \in HF_MODELS THEN Trim(arg.model)
                     ELSE <<"z-image-turbo">>)
  /\ ResolvedModel /\ Trim(arg.model) = EmptyStr =>
       /\ out.plain = Resolved("huggingface", <<"z-image-turbo">>)
       /\ out.chat = ChatModel("huggingface", <<"openai-fast">>, TRUE)

\* some-model is kept by resolveChatModel and replaced by resolveModel.
C18_Witness ==
  /\ ResolvedModel
  /\ arg.model = <<"some-model">>
  /\ out.chat.model = <<"some-model">>
  /\ out.plain.model = <<"z-image-turbo">>

\* The completion operation of a chat model resolved with forced-anonymous
\* mode has been invoked.
ForcedAnonymousInvoked ==
  /\ h.path = "llm"
  /\ h.forceAnonymous
  /\ rot.invoked # <<>>

\* C19: for a chat model resolved with forced-anonymous mode the completion
\* operation is invoked without any credential, neither the caller's bearer
\* token nor one of the channel's configured pool.
C19_ForcedAnonymousSendsNoCredential ==
  ForcedAnonymousInvoked => \A i \in 1..Len(rot.invoked) : rot.invoked[i] = NoToken

\* C20: the initialisation called at the head of every request constructs
\* the custom channels at most once in a process, however the first
\* requests interleave; a call after the first leaves the registry as it
\* is, and no step removes a channel.
C20_ConstructedAtMostOnce ==
  [][/\ constructions' <= 1
     /\ initialized => registry' = registry
     /\ DOMAIN registry \subseteq DOMAIN registry'
     /\ initialized => initialized']_vars

\* Two other requests ran next to a started request, and the channels were
\* constructed once.
C20_Witness ==
  /\ entry = "chat"
  /\ others = MaxRequests
  /\ constructions = 1
  /\ "myhost" \in DOMAIN registry

\* The handler resolved the request to a channel that is not registered or
\* has not the capability of the request's path.
Unroutable ==
  /\ entry = "chat"
  /\ \/ h.channelId \notin DOMAIN registry
     \/ h.path = "image" /\ registry[h.channelId].image = "none"
     \/ h.path = "llm" /\ ~registry[h.channelId].llm

Supplied == parseTokens(h.auth.token)
Configured == registry[h.channelId].tokens
Pooled == entry = "chat" /\ h.pooled

C23_ImagePrefixAlwaysImage ==
  Prefixed("image") => out.image.found

\* image/gitee/qwen-image is resolved as the image model Qwen-Image of gitee.
C23_Witness ==
  /\ ResolvedModel
  /\ arg.model = <<"image", "gitee", "qwen-image">>
  /\ out.image = Target("gitee", <<"Qwen-Image">>)

\* The model string has no image/ prefix and no custom/ prefix, and the
\* channel resolveModel gives it has both capabilities.
BothCapabilities ==
  /\ ResolvedModel
  /\ ~Prefixed("image")
  /\ ~Prefixed("custom")
  /\ getImageChannel(WithCustomChannels(registry), out.plain.provider)
  /\ getLLMChannel(WithCustomChannels(registry), out.plain.provider)

\* C24: on a channel with both capabilities a model string without the
\* image/ prefix is resolved as an image model only when it names a known
\* image model, and a4f/<id> for an id of the A4F llmModels catalog is not.
C24_LLMModelNotImage ==
  /\ BothCapabilities /\ out.image.found => out.known
  /\ BothCapabilities /\ Prefixed("a4f") /\ Suffix \in A4F_LLM_MODELS => ~out.image.found

\* gitee/some-model is no known image model and stays a chat model.
C24_Witness ==
  /\ BothCapabilities
  /\ arg.model = <<"gitee", "some-model">>
  /\ ~out.image.found
  /\ out.chat = ChatModel("gitee", <<"some-model">>, FALSE)

\* The provider the prefix of the bearer text names ("" when it has none),
\* and the handler having resolved the request to another channel.
PrefixNames ==
  IF h.auth.header.scheme = "bearer" THEN PrefixProvider(h.auth.header.prefix) ELSE ""

PrefixMismatch ==
  /\ entry = "chat"
  /\ h.path \in {"image", "llm"}
  /\ PrefixNames # ""
  /\ PrefixNames # h.channelId

RejectedUnused ==
  /\ pc = "done"
  /\ response = Sent(OpErr(invalidParams))
  /\ ~h.pooled
  /\ rot = IdleRotation
  /\ call = IdleCall
  /\ ~fetches

\* C25, as the specification states it: a bearer text with a provider prefix
\* that names another channel than the model's is answered INVALID_PARAMS,
\* with no rotation and no operation invoked.
C25_PrefixMismatchRejected ==
  PrefixMismatch => RejectedUnused

\* C25, amended: a bearer text with a provider prefix followed by a token
\* that is not empty, naming another channel than the model's, is answered
\* INVALID_PARAMS on both paths before the pool is computed, with no rotation
\* and no operation invoked; a prefix with nothing after it is no hint.
C25_PrefixedTokenMismatchRejected ==
  /\ PrefixMismatch /\ h.auth.header.segs # <<>> => RejectedUnused
  /\ PrefixNames # "" /\ h.auth.header.segs = <<>> =>
       h.auth.providerHint = "" /\ h.auth.token = <<>>

\* An a4f: token came with a model of the huggingface channel, on the image
\* path.
C25_Witness ==
  /\ PrefixMismatch
  /\ h.path = "image"
  /\ h.auth.providerHint = "a4f"
  /\ h.channelId = "huggingface"
  /\ RejectedUnused

\* The messages of an image request were read: one user message at least
\* has a text.
MessagesRead == arg.f = "getLastUserImageUrl" /\ out.userPrompt

\* The index of the last user message.
LastUser ==
  CHOOSE i \in 1..Len(arg.messages) :
    /\ arg.messages[i].role = "user"
    /\ \A j \in (i + 1)..Len(arg.messages) : arg.messages[j].role # "user"

\* C26: the source image is the first image url of the last user message;
\* an image of an earlier user message is never used, and the prompt and
\* the image come from the last user message.
C26_ImageOfLastUserMessage ==
  MessagesRead =>
    /\ out.source.kind = "part" => out.source.from = LastUser
    /\ out.source.kind # "none" => out.prompt = out.source.from

\* The last user message carries a text and an image, and both are used.
C26_Witness ==
  /\ MessagesRead
  /\ Len(arg.messages) = 2
  /\ out.prompt = 2
  /\ out.source = [from |-> 2, kind |-> "part"]

EditingModels == {"omni-edit", "omni-upscale", "omni-dewatermark"}

\* The HuggingFace generate is called for an editing model without a source
\* image.
EditWithoutSource ==
  /\ call.cap = "hf"
  /\ call.model \in EditingModels
  /\ ~call.hasSource

\* C27: for omni-edit, omni-upscale and omni-dewatermark the HuggingFace
\* generate called without a source image raises INVALID_PARAMS before any
\* candidate base URL is contacted: no request is sent.
C27_EditWithoutSourceRejected ==
  EditWithoutSource =>
    /\ ~fetches
    /\ gen.contacted = <<>>
    /\ q.submits = <<>>
    /\ pc \in {"rotate", "op_start", "op_return", "done"}
    /\ pc = "op_return" => ret = OpErr(invalidParams)
    /\ pc = "done" => response = Sent(OpErr(invalidParams))

\* generate returned for omni-upscale without a source image.
C27_Witness ==
  /\ EditWithoutSource
  /\ call.model = "omni-upscale"
  /\ pc = "op_return"
  /\ ret = OpErr(invalidParams)
  /\ ~fetches

\* A submit request was answered 2xx.
SubmitAccepted == q.submits # <<>> /\ q.submits[Len(q.submits)] = 200

\* C28: within one callGradioApi call a poll request is sent only after a
\* submit request was answered 2xx with a job id, no submit request is sent
\* once one was answered 2xx, and a 2xx submit response without a job id
\* raises PROVIDER_ERROR with no poll request sent.
C28_SubmitOnceThenPoll ==
  /\ (pc = "poll" \/ q.polls # <<>>) => SubmitAccepted
  /\ \A i \in 1..(Len(q.submits) - 1) : q.submits[i] # 200
  /\ (SubmitAccepted /\ q.polls = <<>> /\ pc # "poll") =>
       /\ pc = "gradio_return"
       /\ ret = GradioErr(providerError(NoMarkers))

\* A submit answered 2xx without a job id ended the call with PROVIDER_ERROR.
C28_Witness ==
  /\ SubmitAccepted
  /\ q.polls = <<>>
  /\ pc = "gradio_return"
  /\ ret = GradioErr(providerError(NoMarkers))

\* A HuggingFace generate call is past its validation.
Generating == call.cap = "hf" /\ gen.contacted # <<>>

\* The seed is the request's when given, 0 included, else a random integer
\* of [0, MAX_INT32); it is fixed before the first candidate is contacted.
SeedFixed ==
  /\ call.seed # NoSeed => gen.seed = call.seed
  /\ call.seed = NoSeed => gen.seed \in RandomSeeds /\ gen.seed >= 0 /\ gen.seed < MAX_INT32

\* The result's seed is the one the space reported in result[1], as a number
\* or, for qwen-image-fast, in its text, and the fixed seed otherwise.
SeedReturned ==
  (pc = "op_return" /\ ret.ok) =>
    gen.resultSeed =
      IF gen.reported = "num" \/ (gen.reported = "seedtext" /\ gen.modelId = "qwen-image-fast")
        THEN ProviderSeed
      ELSE gen.seed

\* C29, as the specification states it: the seed is fixed once before the
\* failover loop and that seed is sent to every candidate base URL; the
\* result's seed is the reported one or else the fixed one.
C29_SameSeedSentToEveryCandidate ==
  Generating =>
    /\ SeedFixed
    /\ Len(gen.sent) = Len(gen.contacted)
    /\ \A i \in 1..Len(gen.sent) : gen.sent[i] = gen.seed
    /\ SeedReturned

\* C29, amended: the seed is fixed once before the failover loop; for the
\* models whose request carries a seed it is sent unchanged to every
\* candidate base URL, for the omni-* models no seed is sent at all; the
\* result's seed is the reported one or else the fixed one.
C29_SameSeedForEveryCandidate ==
  Generating =>
    /\ SeedFixed
    /\ Len(gen.sent) = Len(gen.contacted)
    /\ \A i \in 1..Len(gen.sent) :
         gen.sent[i] = IF gen.modelId \in OMNI_IMAGE_MODELS THEN NoSeed ELSE gen.seed
    /\ SeedReturned

\* The request's seed 0 went to both candidates of z-image-turbo and, the
\* second one reporting none, into the result.
C29_Witness ==
  /\ Generating
  /\ call.seed = 0
  /\ gen.sent = <<0, 0>>
  /\ pc = "op_return"
  /\ ret.ok
  /\ gen.resultSeed = 0

\* The requests sent to the candidate being contacted.
RequestsBounded ==
  /\ Len(q.submits) <= MAX_GRADIO_RETRIES
  /\ Len(q.polls) <= MAX_GRADIO_RETRIES
  /\ Len(q.submits) + Len(q.polls) <= 2 * MAX_GRADIO_RETRIES
  /\ Len(gen.contacted) <= Len(gen.candidates)

\* C30: whatever the upstream answers, one callGradioApi call ends with a
\* result or an error after at most 3 submit and at most 3 poll requests,
\* and one generate call ends after at most 6 requests to each candidate
\* base URL.
C30_GenerateTerminates ==
  /\ []RequestsBounded
  /\ (pc \in {"submit", "poll"}) ~> (pc = "gradio_return")
  /\ (pc = "op_start") ~> (pc = "op_return")

\* Three submit requests and three poll requests went to one candidate.
C30_Witness ==
  /\ pc = "gradio_return"
  /\ Len(q.submits) = MAX_GRADIO_RETRIES
  /\ Len(q.polls) = MAX_GRADIO_RETRIES

====
